---- MODULE Spec2Model ----
(***************************************************************************)
(* A model of the three report scripts of the repository:                  *)
(*   analyze_loops.py, analyze_secondary_structure.py, analyze_msa_usage.py*)
(* Text is modelled by TLA+ strings; a character is a string of length 1.  *)
(* Python indexes from 0, TLA+ from 1: the operators below take Python's   *)
(* offsets and do the shift themselves.                                    *)
(***************************************************************************)
EXTENDS Integers, Sequences, FiniteSets, TLC

VARIABLES
    \* identify_loops (analyze_loops.py)
    structured_regions, atoms_by_residue, loop_residues, loops, current_loop, i, lpc,
    \* the PDB parsers of analyze_loops.py and analyze_secondary_structure.py
    script, pdb_file, ppc, ln, ca_coords, helices, sheets,
    \* parse_entry_table (analyze_msa_usage.py)
    fieldnames, table_rows, tpc, fi, group_col, id_col, sequence_to_group,
    \* normalize_sequence_id (analyze_msa_usage.py)
    seq_id, base_id, matched_id, npc, ni,
    \* analyze_amino_acid_usage (analyze_msa_usage.py), after its two parsers
    alignment, max_length, group_sequences, unmatched, ai, mpc, pos, report, exit_code,
    \* the three scripts from their first line on: what each has printed on
    \* its standard output and standard error, where it is, the element or
    \* loop its report loop is at, and which of its input files can be read
    stdout, stderr, opc, oi, files

loopVars == <<structured_regions, atoms_by_residue, loop_residues, loops, current_loop, i, lpc>>

pdbVars == <<script, pdb_file, ppc, ln, ca_coords, helices, sheets>>

tableVars == <<fieldnames, table_rows, tpc, fi, group_col, id_col, sequence_to_group>>

normVars == <<seq_id, base_id, matched_id, npc, ni>>

msaVars == <<alignment, max_length, group_sequences, unmatched, ai, mpc, pos, report, exit_code>>

outVars == <<stdout, stderr, opc, oi, files>>

vars == <<loopVars, pdbVars, tableVars, normVars, msaVars, outVars>>

-----------------------------------------------------------------------------
(* Bounds of the model *)

\* residue numbers of the loop model are 1..MaxRes
MaxRes == 3

\* chain identifiers of the loop model
Chains == {"A", "B"}

\* a PDB file of the model has at most MaxLines lines
MaxLines == 2

\* the residue numbers of the well-formed records of a PDB file are 1..MaxSeq
MaxSeq == 2

\* a table has 1..MaxHeaders columns
MaxHeaders == 3

\* the table normalize_sequence_id is given has at most MaxTable identifiers
MaxTable == 2

\* an alignment has at most MaxAlign sequences
MaxAlign == 3

\* the longest file a whole script is run on
MaxFileLines == 3

-----------------------------------------------------------------------------
(* Text helpers *)

\* the characters of the model in code point order
CodePoints == " -.0123456789ABCDEFGHIJKLMNOPQRSTUVWXYZ_abcdefghijklmnopqrstuvwxyz"

\* the rank of every character in code point order
OrdMap ==
    [c \in {SubSeq(CodePoints, k, k) : k \in 1..Len(CodePoints)} |->
        CHOOSE k \in 1..Len(CodePoints) : SubSeq(CodePoints, k, k) = c]

\* the rank of a character (Python compares strings by code point); the
\* empty string sorts before every character
Ord(c) == IF Len(c) = 0 THEN 0 ELSE OrdMap[c]

RECURSIVE StrLess(_, _)
\* a < b on str
StrLess(a, b) ==
    IF Len(b) = 0 THEN FALSE
    ELSE IF Len(a) = 0 THEN TRUE
    ELSE IF SubSeq(a, 1, 1) # SubSeq(b, 1, 1) THEN Ord(SubSeq(a, 1, 1)) < Ord(SubSeq(b, 1, 1))
    ELSE StrLess(SubSeq(a, 2, Len(a)), SubSeq(b, 2, Len(b)))

Min(a, b) == IF a < b THEN a ELSE b

\* s[k] exists (no IndexError), k a Python offset
HasIndex(s, k) == k < Len(s)

\* s[k], k a Python offset
CharAt(s, k) == SubSeq(s, k + 1, k + 1)

\* s[a:b], Python offsets, clamped to the length as Python does
Slice(s, a, b) == SubSeq(s, Min(a, Len(s)) + 1, Min(b, Len(s)))

\* s.startswith(p)
StartsWith(s, p) == Len(s) >= Len(p) /\ SubSeq(s, 1, Len(p)) = p

Whitespace == {" ", "\n", "\t", "\r"}

RECURSIVE LStrip(_)
LStrip(s) == IF Len(s) = 0 THEN ""
             ELSE IF SubSeq(s, 1, 1) \in Whitespace THEN LStrip(SubSeq(s, 2, Len(s)))
             ELSE s

RECURSIVE RStrip(_)
RStrip(s) == IF Len(s) = 0 THEN ""
             ELSE IF SubSeq(s, Len(s), Len(s)) \in Whitespace THEN RStrip(SubSeq(s, 1, Len(s) - 1))
             ELSE s

\* s.strip()
Strip(s) == RStrip(LStrip(s))

Digits == {"0", "1", "2", "3", "4", "5", "6", "7", "8", "9"}

DigitVal(c) ==
    CASE c = "0" -> 0 [] c = "1" -> 1 [] c = "2" -> 2 [] c = "3" -> 3 [] c = "4" -> 4
      [] c = "5" -> 5 [] c = "6" -> 6 [] c = "7" -> 7 [] c = "8" -> 8 [] c = "9" -> 9

\* every character of s is a decimal digit
AllDigits(s) == \A k \in 1..Len(s) : SubSeq(s, k, k) \in Digits

RECURSIVE DigitsVal(_)
DigitsVal(s) == IF Len(s) = 0 THEN 0
                ELSE 10 * DigitsVal(SubSeq(s, 1, Len(s) - 1)) + DigitVal(SubSeq(s, Len(s), Len(s)))

HasSign(s) == Len(s) > 0 /\ SubSeq(s, 1, 1) \in {"-", "+"}

Unsigned(s) == IF HasSign(s) THEN SubSeq(s, 2, Len(s)) ELSE s

Sign(s) == IF Len(s) > 0 /\ SubSeq(s, 1, 1) = "-" THEN -1 ELSE 1

\* int(s) does not raise ValueError: an optional sign and at least one digit,
\* after surrounding whitespace is dropped
IsInt(s) == LET u == Unsigned(Strip(s)) IN Len(u) > 0 /\ AllDigits(u)

\* int(s)
IntVal(s) == LET t == Strip(s) IN Sign(t) * DigitsVal(Unsigned(t))

\* the offsets (from 1) of the dots of s
DotsOf(s) == {k \in 1..Len(s) : SubSeq(s, k, k) = "."}

\* float(s) does not raise ValueError, for text over digits, sign, dot, blank
\* and other letters than those of exponents, "inf" and "nan": an optional
\* sign, digits with at most one dot, at least one digit
IsFloat(s) ==
    LET u == Unsigned(Strip(s)) IN
    /\ Cardinality(DotsOf(u)) <= 1
    /\ \A k \in 1..Len(u) : SubSeq(u, k, k) \in Digits \cup {"."}
    /\ \E k \in 1..Len(u) : SubSeq(u, k, k) \in Digits

\* 10^n
RECURSIVE Pow10(_)
Pow10(n) == IF n <= 0 THEN 1 ELSE 10 * Pow10(n - 1)

\* float(s) in thousandths (the fields of the model carry at most three
\* decimals)
FloatVal(s) ==
    LET t == Strip(s)
        u == Unsigned(t)
        d == IF DotsOf(u) = {} THEN Len(u) + 1 ELSE CHOOSE k \in DotsOf(u) : TRUE
        whole == SubSeq(u, 1, d - 1)
        frac == SubSeq(u, d + 1, Len(u))
    IN Sign(t) * (1000 * DigitsVal(whole) + DigitsVal(frac) * Pow10(3 - Len(frac)))

\* needle in hay
Contains(hay, needle) ==
    \E k \in 0..(Len(hay) - Len(needle)) : SubSeq(hay, k + 1, k + Len(needle)) = needle

UpperLetters == "ABCDEFGHIJKLMNOPQRSTUVWXYZ"

LowerLetters == "abcdefghijklmnopqrstuvwxyz"

\* the lower case letter of every upper case letter
LowerMap ==
    [c \in {SubSeq(UpperLetters, k, k) : k \in 1..26} |->
        LET k == CHOOSE k \in 1..26 : SubSeq(UpperLetters, k, k) = c IN SubSeq(LowerLetters, k, k)]

\* the upper case letter of every lower case letter
UpperMap ==
    [c \in {SubSeq(LowerLetters, k, k) : k \in 1..26} |->
        LET k == CHOOSE k \in 1..26 : SubSeq(LowerLetters, k, k) = c IN SubSeq(UpperLetters, k, k)]

\* c.lower() of one character
LowerChar(c) == IF c \in DOMAIN LowerMap THEN LowerMap[c] ELSE c

\* c.upper() of one character
UpperChar(c) == IF c \in DOMAIN UpperMap THEN UpperMap[c] ELSE c

RECURSIVE Lower(_)
\* s.lower()
Lower(s) == IF Len(s) = 0 THEN ""
            ELSE LowerChar(SubSeq(s, 1, 1)) \o Lower(SubSeq(s, 2, Len(s)))

\* any(keyword in s for keyword in keywords)
AnyIn(s, keywords) == \E k \in keywords : Contains(s, k)

-----------------------------------------------------------------------------
(* The fixed-column line parsers.  An operator reads one line as the body  *)
(* of the try block does; ok = FALSE is the except branch (continue).      *)

Skip == [ok |-> FALSE]

\* range(resseq1, resseq2) without the + 1
ExpandRangeExclusive(chain_id, resseq1, resseq2) == {<<chain_id, n>> : n \in resseq1..(resseq2 - 1)}

\* for resnum in range(resseq1, resseq2 + 1): add((chain_id, resnum))
ExpandRange(chain_id, resseq1, resseq2) == {<<chain_id, n>> : n \in resseq1..resseq2}

\* the HELIX fields: chain_id at 19, resseq1 at 21:25, resseq2 at 33:37
HelixFields(line) ==
    IF ~HasIndex(line, 19) THEN Skip
    ELSE IF ~IsInt(Slice(line, 21, 25)) THEN Skip
    ELSE IF ~IsInt(Slice(line, 33, 37)) THEN Skip
    ELSE [ok |-> TRUE,
          chain_id |-> Strip(CharAt(line, 19)),
          resseq1 |-> IntVal(Slice(line, 21, 25)),
          resseq2 |-> IntVal(Slice(line, 33, 37))]

\* the SHEET fields: chain_id at 21, resseq1 at 22:26, resseq2 at 33:37
SheetFields(line) ==
    IF ~HasIndex(line, 21) THEN Skip
    ELSE IF ~IsInt(Slice(line, 22, 26)) THEN Skip
    ELSE IF ~IsInt(Slice(line, 33, 37)) THEN Skip
    ELSE [ok |-> TRUE,
          chain_id |-> Strip(CharAt(line, 21)),
          resseq1 |-> IntVal(Slice(line, 22, 26)),
          resseq2 |-> IntVal(Slice(line, 33, 37))]

\* what one line adds to structured_regions in parse_pdb_secondary_structure
StructuredOfLine(line) ==
    IF StartsWith(line, "HELIX")
    THEN LET f == HelixFields(line) IN
         IF f.ok THEN ExpandRange(f.chain_id, f.resseq1, f.resseq2) ELSE {}
    ELSE IF StartsWith(line, "SHEET")
    THEN LET f == SheetFields(line) IN
         IF f.ok THEN ExpandRange(f.chain_id, f.resseq1, f.resseq2) ELSE {}
    ELSE {}

\* the ATOM/HETATM fields of analyze_loops.py: chain_id at 21, resname at
\* 17:20, resnum at 22:26, b_factor at 60:66
AtomFields(line) ==
    IF ~HasIndex(line, 21) THEN Skip
    ELSE IF ~IsInt(Slice(line, 22, 26)) THEN Skip
    ELSE IF ~IsFloat(Slice(line, 60, 66)) THEN Skip
    ELSE [ok |-> TRUE,
          chain_id |-> Strip(CharAt(line, 21)),
          resname |-> Strip(Slice(line, 17, 20)),
          resnum |-> IntVal(Slice(line, 22, 26)),
          b_factor |-> FloatVal(Slice(line, 60, 66))]

\* d[k].append(v) on a defaultdict(list)
DictAppend(d, k, v) ==
    [x \in DOMAIN d \cup {k} |->
        IF x = k THEN (IF k \in DOMAIN d THEN Append(d[k], v) ELSE <<v>>) ELSE d[x]]

\* d[k] = v
DictSet(d, k, v) == [x \in DOMAIN d \cup {k} |-> IF x = k THEN v ELSE d[x]]

\* {} (an empty dict)
EmptyDict == [x \in {} |-> 0]

\* one line of parse_pdb_atoms of analyze_loops.py applied to the dict
AtomsAfterLine(d, line) ==
    IF StartsWith(line, "ATOM") \/ StartsWith(line, "HETATM")
    THEN LET f == AtomFields(line) IN
         IF f.ok
         THEN DictAppend(d, <<f.chain_id, f.resnum>>,
                         [resname |-> f.resname, b_factor |-> f.b_factor])
         ELSE d
    ELSE d

\* the ATOM fields of analyze_secondary_structure.py, read only when the
\* atom name at 12:16 is CA: chain_id at 21, resnum at 22:26, x at 30:38,
\* y at 38:46, z at 46:54
CAFields(line) ==
    IF Strip(Slice(line, 12, 16)) # "CA" THEN [ok |-> TRUE, is_ca |-> FALSE]
    ELSE IF ~HasIndex(line, 21) THEN Skip
    ELSE IF ~IsInt(Slice(line, 22, 26)) THEN Skip
    ELSE IF ~IsFloat(Slice(line, 30, 38)) THEN Skip
    ELSE IF ~IsFloat(Slice(line, 38, 46)) THEN Skip
    ELSE IF ~IsFloat(Slice(line, 46, 54)) THEN Skip
    ELSE [ok |-> TRUE, is_ca |-> TRUE,
          chain_id |-> Strip(CharAt(line, 21)),
          resnum |-> IntVal(Slice(line, 22, 26)),
          x |-> FloatVal(Slice(line, 30, 38)),
          y |-> FloatVal(Slice(line, 38, 46)),
          z |-> FloatVal(Slice(line, 46, 54))]

\* one line of parse_pdb_atoms of analyze_secondary_structure.py
CAAfterLine(d, line) ==
    IF StartsWith(line, "ATOM")
    THEN LET f == CAFields(line) IN
         IF f.ok /\ f.is_ca
         THEN DictSet(d, <<f.chain_id, f.resnum>>, <<f.x, f.y, f.z>>)
         ELSE d
    ELSE d

\* one line of parse_helices
HelicesAfterLine(hs, line) ==
    IF StartsWith(line, "HELIX")
    THEN LET f == HelixFields(line) IN
         IF f.ok
         THEN Append(hs, [helix_id |-> Strip(Slice(line, 7, 10)),
                          chain_id |-> f.chain_id,
                          resseq1 |-> f.resseq1,
                          resseq2 |-> f.resseq2,
                          helix_class |-> Strip(Slice(line, 38, 40))])
         ELSE hs
    ELSE hs

\* one line of parse_sheets
SheetsAfterLine(ss, line) ==
    IF StartsWith(line, "SHEET")
    THEN LET f == SheetFields(line) IN
         IF f.ok
         THEN Append(ss, [sheet_id |-> Strip(Slice(line, 7, 10)),
                          strand_id |-> Strip(Slice(line, 11, 14)),
                          chain_id |-> f.chain_id,
                          resseq1 |-> f.resseq1,
                          resseq2 |-> f.resseq2])
         ELSE ss
    ELSE ss

-----------------------------------------------------------------------------
(* identify_loops *)

\* Python's order on (chain_id, resnum) tuples
KeyLess(a, b) == \/ StrLess(a[1], b[1])
                 \/ a[1] = b[1] /\ a[2] < b[2]

\* the least key of a non-empty set
MinKey(S) == CHOOSE m \in S : \A k \in S : k = m \/ KeyLess(m, k)

RECURSIVE Sorted(_)
\* sorted(set(...)) of residue keys
Sorted(S) == IF S = {} THEN <<>>
             ELSE LET m == MinKey(S) IN <<m>> \o Sorted(S \ {m})

\* [x for x in s if P(x)]
RECURSIVE SelectKeys(_, _)
SelectKeys(s, drop) ==
    IF s = <<>> THEN <<>>
    ELSE (IF Head(s) \in drop THEN <<>> ELSE <<Head(s)>>) \o SelectKeys(Tail(s), drop)

LoopResiduesKeepAll(all_residues, structured) == all_residues

\* loop_residues = [res for res in all_residues if res not in structured_regions]
LoopResidues(all_residues, structured) == SelectKeys(all_residues, structured)

ContiguousAnyChain(prev, curr) == curr[2] = prev[2] + 1

\* prev_chain == curr_chain and curr_resnum == prev_resnum + 1
Contiguous(prev, curr) == prev[1] = curr[1] /\ curr[2] = prev[2] + 1

\* the atom list every residue of the loop model carries
AtomLists == {<<[resname |-> "ALA", b_factor |-> 10]>>}

ResidueKeys == Chains \X (1..MaxRes)

\* None, where the code tests it with "not": no column name is empty
None == ""

\* the state of parse_entry_table when it does not run
TableIdle ==
    /\ fieldnames = <<>>
    /\ table_rows = <<>>
    /\ tpc = "idle"
    /\ fi = 0
    /\ group_col = None
    /\ id_col = None
    /\ sequence_to_group = <<>>

\* the state of normalize_sequence_id when it does not run
NormIdle ==
    /\ seq_id = ""
    /\ base_id = None
    /\ matched_id = None
    /\ npc = "idle"
    /\ ni = 0

\* the state of analyze_amino_acid_usage when it does not run
MsaIdle ==
    /\ alignment = <<>>
    /\ max_length = 0
    /\ group_sequences = <<>>
    /\ unmatched = <<>>
    /\ ai = 0
    /\ mpc = "idle"
    /\ pos = 0
    /\ report = <<>>
    /\ exit_code = 0

\* the state of the scripts' output when only a function of theirs runs
OutIdle ==
    /\ stdout = <<>>
    /\ stderr = <<>>
    /\ opc = "idle"
    /\ oi = 0
    /\ files = <<>>

\* the state of the PDB parsers when no script runs
PdbIdle ==
    /\ script = "analyze_loops"
    /\ pdb_file = <<>>
    /\ ppc = "parsed"
    /\ ln = 0
    /\ ca_coords = EmptyDict
    /\ helices = <<>>
    /\ sheets = <<>>

InitLoops ==
    /\ structured_regions \in SUBSET ResidueKeys
    /\ \E K \in SUBSET ResidueKeys : atoms_by_residue \in [K -> AtomLists]
    /\ loop_residues = <<>>
    /\ loops = <<>>
    /\ current_loop = <<>>
    /\ i = 0
    /\ lpc = "start"
    /\ PdbIdle
    /\ TableIdle
    /\ NormIdle
    /\ MsaIdle
    /\ OutIdle

\* lines 92-102: sort, filter, early return, first current_loop
IdentifyStart ==
    /\ lpc = "start"
    /\ LET all_residues == Sorted(DOMAIN atoms_by_residue)
           lr == LoopResidues(all_residues, structured_regions)
       IN /\ loop_residues' = lr
          /\ loops' = <<>>
          /\ IF lr = <<>>
             THEN /\ lpc' = "done"
                  /\ UNCHANGED <<current_loop, i>>
             ELSE /\ current_loop' = <<lr[1]>>
                  /\ i' = 1
                  /\ lpc' = "loop"
    /\ UNCHANGED <<structured_regions, atoms_by_residue>>
    /\ UNCHANGED <<pdbVars, tableVars, normVars, msaVars, outVars>>

\* lines 104-115: one iteration of the grouping loop
IdentifyStep ==
    /\ lpc = "loop"
    /\ i < Len(loop_residues)
    /\ LET prev == loop_residues[i]
           curr == loop_residues[i + 1]
       IN IF Contiguous(prev, curr)
          THEN /\ current_loop' = Append(current_loop, curr)
               /\ UNCHANGED loops
          ELSE /\ loops' = (IF current_loop # <<>> THEN Append(loops, current_loop) ELSE loops)
               /\ current_loop' = <<curr>>
    /\ i' = i + 1
    /\ UNCHANGED <<structured_regions, atoms_by_residue, loop_residues, lpc>>
    /\ UNCHANGED <<pdbVars, tableVars, normVars, msaVars, outVars>>

\* lines 117-121: the last loop, return
IdentifyFinish ==
    /\ lpc = "loop"
    /\ i >= Len(loop_residues)
    /\ loops' = (IF current_loop # <<>> THEN Append(loops, current_loop) ELSE loops)
    /\ lpc' = "done"
    /\ UNCHANGED <<structured_regions, atoms_by_residue, loop_residues, current_loop, i>>
    /\ UNCHANGED <<pdbVars, tableVars, normVars, msaVars, outVars>>

NextLoops == IdentifyStart \/ IdentifyStep \/ IdentifyFinish

SpecLoops == InitLoops /\ [][NextLoops]_vars

\* one iteration of the "for line in f" loop of a parser on its result
ApplyLine(parser, acc, line) ==
    CASE parser = "secondary_structure" -> acc \cup StructuredOfLine(line)
      [] parser = "atoms" -> AtomsAfterLine(acc, line)
      [] parser = "ca_atoms" -> CAAfterLine(acc, line)
      [] parser = "helices" -> HelicesAfterLine(acc, line)
      [] parser = "sheets" -> SheetsAfterLine(acc, line)

RECURSIVE ParseFile(_, _, _)
\* a parser run on a whole file: acc is its empty result, lines the texts
ParseFile(parser, acc, lines) ==
    IF lines = <<>> THEN acc
    ELSE ParseFile(parser, ApplyLine(parser, acc, Head(lines)), Tail(lines))

-----------------------------------------------------------------------------
(* PDB files of the model.  A line is a record: text is what the parsers   *)
(* read; kind, chain, resseq1, resseq2 and form say which record the text  *)
(* was written from (form "ok": all columns written in full).              *)

RECURSIVE IntText(_)
\* the decimal digits of n >= 0
IntText(n) ==
    LET d == CHOOSE c \in Digits : DigitVal(c) = n % 10 IN
    IF n < 10 THEN d ELSE IntText(n \div 10) \o d

RECURSIVE RJust(_, _)
\* s right-justified in a field of w columns
RJust(s, w) == IF Len(s) >= w THEN s ELSE RJust(" " \o s, w)

\* a HELIX line: chain at column 19, the residue numbers at 21:25 and 33:37,
\* the class at 38:40
HelixText(chain, t1, t2) ==
    "HELIX    1   1 ALA " \o chain \o " " \o t1 \o "  ALA " \o chain \o " " \o t2 \o "  1" \o "\n"

\* a SHEET line: chain at column 21, the residue numbers at 22:26 and 33:37
SheetText(chain, t1, t2) ==
    "SHEET    1   A 2 VAL " \o chain \o t1 \o "  VAL " \o chain \o t2 \o "  0" \o "\n"

\* an ATOM or HETATM line: name at 12:16, resname at 17:20, chain at 21,
\* resnum at 22:26, x, y, z at 30:38, 38:46, 46:54, b_factor at 60:66
AtomText(rec, name, resname, chain, tres, tx, ty, tz, tb) ==
    rec \o "    1 " \o name \o " " \o resname \o " " \o chain \o tres \o "    "
        \o tx \o ty \o tz \o "  1.00" \o tb \o "\n"

\* the first n columns of a line, and its newline
Cut(text, n) == SubSeq(text, 1, n) \o "\n"

Line(text, kind, chain, r1, r2, form) ==
    [text |-> text, kind |-> kind, chain |-> chain, resseq1 |-> r1, resseq2 |-> r2, form |-> form]

HelixLines ==
    {Line(HelixText("A", RJust(IntText(a), 4), RJust(IntText(b), 4)), "HELIX", "A", a, b, "ok") :
        a \in 1..MaxSeq, b \in 1..MaxSeq}
    \cup {Line(HelixText("A", "  x1", "   2"), "HELIX", "A", 0, 0, "nonnumeric"),
          Line(HelixText("A", "   1", "   x"), "HELIX", "A", 0, 0, "nonnumeric"),
          Line(Cut(HelixText("A", "   1", "  10"), 15), "HELIX", "A", 1, 10, "short"),
          Line(Cut(HelixText("A", "   1", "  10"), 36), "HELIX", "A", 1, 10, "short"),
          Line(Cut(HelixText("A", "   1", "   2"), 38), "HELIX", "A", 1, 2, "short")}

SheetLines ==
    {Line(SheetText(c, "   1", RJust(IntText(b), 4)), "SHEET", c, 1, b, "ok") :
        c \in {"A", "B"}, b \in 1..MaxSeq}
    \cup {Line(SheetText("B", "   2", "   1"), "SHEET", "B", 2, 1, "ok"),
          Line(SheetText("B", "   1", "  2x"), "SHEET", "B", 0, 0, "nonnumeric"),
          Line(Cut(SheetText("B", "   1", "  10"), 36), "SHEET", "B", 1, 10, "short")}

AtomLines ==
    {Line(AtomText("ATOM  ", " CA ", "ALA", "A", RJust(IntText(a), 4),
                   "   3.000", "   4.000", "   0.000", " 10.50"), "ATOM", "A", a, a, "ok") :
        a \in 1..(MaxSeq + 1)}
    \cup {Line(AtomText("ATOM  ", " N  ", "ALA", "A", "   1",
                        "   1.000", "   0.000", "   0.000", " 20.00"), "ATOM", "A", 1, 1, "ok"),
          Line(AtomText("HETATM", " O  ", "HOH", "B", "   1",
                        "   0.000", "   0.000", "   0.000", " 30.25"), "HETATM", "B", 1, 1, "ok"),
          Line(AtomText("ATOM  ", " CA ", "GLY", "B", "  x2",
                        "   0.000", "   0.000", "   0.000", " 10.00"), "ATOM", "B", 0, 0, "nonnumeric"),
          Line(AtomText("ATOM  ", " CA ", "GLY", "B", "   2",
                        "   0.000", "   1.x00", "   0.000", " 1x.00"), "ATOM", "B", 2, 2, "nonnumeric"),
          Line(Cut(AtomText("ATOM  ", " CA ", "GLY", "B", "   2",
                        "   0.000", "   0.000", "  12.500", " 40.75"), 20), "ATOM", "B", 2, 2, "short"),
          Line(Cut(AtomText("ATOM  ", " CA ", "GLY", "B", "   2",
                        "   0.000", "   0.000", "  12.500", " 40.75"), 51), "ATOM", "B", 2, 2, "short"),
          Line(Cut(AtomText("ATOM  ", " CA ", "GLY", "B", "   2",
                        "   0.000", "   0.000", "  12.500", " 40.75"), 63), "ATOM", "B", 2, 2, "short")}

OtherLines == {Line("REMARK   2 RESOLUTION.\n", "REMARK", "", 0, 0, "ok")}

PdbLines == HelixLines \cup SheetLines \cup AtomLines \cup OtherLines

\* the files of at most MaxLines lines
PdbFiles == UNION {[1..n -> PdbLines] : n \in 0..MaxLines}

Scripts == {"analyze_loops", "analyze_secondary_structure"}

InitPdb ==
    /\ script \in Scripts
    /\ pdb_file \in PdbFiles
    /\ ppc = (IF script = "analyze_loops" THEN "secondary_structure" ELSE "ca_atoms")
    /\ ln = 1
    /\ structured_regions = {}
    /\ atoms_by_residue = EmptyDict
    /\ ca_coords = EmptyDict
    /\ helices = <<>>
    /\ sheets = <<>>
    /\ loop_residues = <<>>
    /\ loops = <<>>
    /\ current_loop = <<>>
    /\ i = 0
    /\ lpc = "wait"
    /\ TableIdle
    /\ NormIdle
    /\ MsaIdle
    /\ OutIdle

\* parse_pdb_secondary_structure: one iteration of "for line in f"
ParseSecondaryStructureLine ==
    /\ ppc = "secondary_structure"
    /\ ln <= Len(pdb_file)
    /\ structured_regions' = ApplyLine("secondary_structure", structured_regions, pdb_file[ln].text)
    /\ ln' = ln + 1
    /\ UNCHANGED <<atoms_by_residue, loop_residues, loops, current_loop, i, lpc>>
    /\ UNCHANGED <<script, pdb_file, ppc, ca_coords, helices, sheets>>
    /\ UNCHANGED <<tableVars, normVars, msaVars, outVars>>

\* parse_pdb_secondary_structure returns; analyze_loops calls parse_pdb_atoms
ParseSecondaryStructureReturn ==
    /\ ppc = "secondary_structure"
    /\ ln > Len(pdb_file)
    /\ ppc' = "atoms"
    /\ ln' = 1
    /\ UNCHANGED loopVars
    /\ UNCHANGED <<script, pdb_file, ca_coords, helices, sheets>>
    /\ UNCHANGED <<tableVars, normVars, msaVars, outVars>>

\* parse_pdb_atoms of analyze_loops.py: one iteration of "for line in f"
ParseAtomsLine ==
    /\ ppc = "atoms"
    /\ ln <= Len(pdb_file)
    /\ atoms_by_residue' = ApplyLine("atoms", atoms_by_residue, pdb_file[ln].text)
    /\ ln' = ln + 1
    /\ UNCHANGED <<structured_regions, loop_residues, loops, current_loop, i, lpc>>
    /\ UNCHANGED <<script, pdb_file, ppc, ca_coords, helices, sheets>>
    /\ UNCHANGED <<tableVars, normVars, msaVars, outVars>>

\* parse_pdb_atoms returns; analyze_loops calls identify_loops
ParseAtomsReturn ==
    /\ ppc = "atoms"
    /\ ln > Len(pdb_file)
    /\ ppc' = "parsed"
    /\ lpc' = "start"
    /\ UNCHANGED <<structured_regions, atoms_by_residue, loop_residues, loops, current_loop, i>>
    /\ UNCHANGED <<script, pdb_file, ln, ca_coords, helices, sheets>>
    /\ UNCHANGED <<tableVars, normVars, msaVars, outVars>>

\* parse_pdb_atoms of analyze_secondary_structure.py: one iteration
ParseCALine ==
    /\ ppc = "ca_atoms"
    /\ ln <= Len(pdb_file)
    /\ ca_coords' = ApplyLine("ca_atoms", ca_coords, pdb_file[ln].text)
    /\ ln' = ln + 1
    /\ UNCHANGED loopVars
    /\ UNCHANGED <<script, pdb_file, ppc, helices, sheets>>
    /\ UNCHANGED <<tableVars, normVars, msaVars, outVars>>

\* it returns; analyze_secondary_structure calls parse_helices
ParseCAReturn ==
    /\ ppc = "ca_atoms"
    /\ ln > Len(pdb_file)
    /\ ppc' = "helices"
    /\ ln' = 1
    /\ UNCHANGED loopVars
    /\ UNCHANGED <<script, pdb_file, ca_coords, helices, sheets>>
    /\ UNCHANGED <<tableVars, normVars, msaVars, outVars>>

\* parse_helices: one iteration
ParseHelicesLine ==
    /\ ppc = "helices"
    /\ ln <= Len(pdb_file)
    /\ helices' = ApplyLine("helices", helices, pdb_file[ln].text)
    /\ ln' = ln + 1
    /\ UNCHANGED loopVars
    /\ UNCHANGED <<script, pdb_file, ppc, ca_coords, sheets>>
    /\ UNCHANGED <<tableVars, normVars, msaVars, outVars>>

\* parse_helices returns; analyze_secondary_structure calls parse_sheets
ParseHelicesReturn ==
    /\ ppc = "helices"
    /\ ln > Len(pdb_file)
    /\ ppc' = "sheets"
    /\ ln' = 1
    /\ UNCHANGED loopVars
    /\ UNCHANGED <<script, pdb_file, ca_coords, helices, sheets>>
    /\ UNCHANGED <<tableVars, normVars, msaVars, outVars>>

\* parse_sheets: one iteration
ParseSheetsLine ==
    /\ ppc = "sheets"
    /\ ln <= Len(pdb_file)
    /\ sheets' = ApplyLine("sheets", sheets, pdb_file[ln].text)
    /\ ln' = ln + 1
    /\ UNCHANGED loopVars
    /\ UNCHANGED <<script, pdb_file, ppc, ca_coords, helices>>
    /\ UNCHANGED <<tableVars, normVars, msaVars, outVars>>

\* parse_sheets returns
ParseSheetsReturn ==
    /\ ppc = "sheets"
    /\ ln > Len(pdb_file)
    /\ ppc' = "parsed"
    /\ UNCHANGED loopVars
    /\ UNCHANGED <<script, pdb_file, ln, ca_coords, helices, sheets>>
    /\ UNCHANGED <<tableVars, normVars, msaVars, outVars>>

NextPdb ==
    \/ ParseSecondaryStructureLine
    \/ ParseSecondaryStructureReturn
    \/ ParseAtomsLine
    \/ ParseAtomsReturn
    \/ IdentifyStart
    \/ IdentifyStep
    \/ IdentifyFinish
    \/ ParseCALine
    \/ ParseCAReturn
    \/ ParseHelicesLine
    \/ ParseHelicesReturn
    \/ ParseSheetsLine
    \/ ParseSheetsReturn

SpecPdb == InitPdb /\ [][NextPdb]_vars

-----------------------------------------------------------------------------
(* parse_entry_table: the header row, then the data rows *)

\* 'group' in field.lower()
IsGroupField(field) == Contains(Lower(field), "group")

\* any(keyword in field.lower() for keyword in ['id', 'name', 'sequence', 'entry', 'accession'])
IsIdField(field) == AnyIn(Lower(field), {"id", "name", "sequence", "entry", "accession"})

IsGroupVariationGenusOnly(field) == AnyIn(Lower(field), {"genus"})

\* any(keyword in field.lower() for keyword in ['genus', 'species', 'taxon', 'class'])
IsGroupVariation(field) == AnyIn(Lower(field), {"genus", "species", "taxon", "class"})

\* row[col] of a csv.DictReader row: of two columns of one name the later wins
RowGet(names, row, col) ==
    LET at == {k \in 1..Len(names) : names[k] = col}
        last == CHOOSE k \in at : \A j \in at : j <= k
    IN row[last]

\* d[k] = v on a dict kept as the sequence of its items in insertion order
DictPut(d, k, v) ==
    IF \E n \in 1..Len(d) : d[n].id = k
    THEN [n \in 1..Len(d) |-> IF d[n].id = k THEN [id |-> k, group |-> v] ELSE d[n]]
    ELSE Append(d, [id |-> k, group |-> v])

\* the header names of the model
HeaderNames == {"Group", "SubGroup", "Genus", "species", "Taxon", "Class", "ID", "Entry Name", "Notes"}

\* the cells of the two data rows of the model's tables, by column
TableBody == << <<"id1", "g1", " id2", "g3", "id5">>,
                <<" id2 ", " ", "id1", " g2 ", "">> >>

\* the header rows of 1..MaxHeaders columns
HeaderRows == UNION {[1..n -> HeaderNames] : n \in 1..MaxHeaders}

InitTable ==
    /\ fieldnames \in HeaderRows
    /\ table_rows = [r \in 1..2 |-> SubSeq(TableBody[r], 1, Len(fieldnames))]
    /\ tpc = "scan"
    /\ fi = 1
    /\ group_col = None
    /\ id_col = None
    /\ sequence_to_group = <<>>
    /\ structured_regions = {}
    /\ atoms_by_residue = EmptyDict
    /\ loop_residues = <<>>
    /\ loops = <<>>
    /\ current_loop = <<>>
    /\ i = 0
    /\ lpc = "wait"
    /\ PdbIdle
    /\ NormIdle
    /\ MsaIdle
    /\ OutIdle

\* lines 53-57: one iteration of the loop over the header fields
TableScanField ==
    /\ tpc = "scan"
    /\ fi <= Len(fieldnames)
    /\ LET field == fieldnames[fi] IN
       /\ group_col' = (IF IsGroupField(field) THEN field ELSE group_col)
       /\ id_col' = (IF IsIdField(field) THEN field ELSE id_col)
    /\ fi' = fi + 1
    /\ UNCHANGED <<fieldnames, table_rows, tpc, sequence_to_group>>
    /\ UNCHANGED <<loopVars, pdbVars, normVars, msaVars, outVars>>

\* line 59: the loop is over; "if not group_col" chooses the fallback loop
TableScanEnd ==
    /\ tpc = "scan"
    /\ fi > Len(fieldnames)
    /\ tpc' = (IF group_col = None THEN "fallback" ELSE "resolve")
    /\ fi' = 1
    /\ UNCHANGED <<fieldnames, table_rows, group_col, id_col, sequence_to_group>>
    /\ UNCHANGED <<loopVars, pdbVars, normVars, msaVars, outVars>>

\* lines 61-64: one iteration of the fallback loop, with its break
TableFallbackField ==
    /\ tpc = "fallback"
    /\ fi <= Len(fieldnames)
    /\ IF IsGroupVariation(fieldnames[fi])
       THEN /\ group_col' = fieldnames[fi]
            /\ tpc' = "resolve"
            /\ UNCHANGED fi
       ELSE /\ fi' = fi + 1
            /\ UNCHANGED <<group_col, tpc>>
    /\ UNCHANGED <<fieldnames, table_rows, id_col, sequence_to_group>>
    /\ UNCHANGED <<loopVars, pdbVars, normVars, msaVars, outVars>>

\* the fallback loop ends without a match
TableFallbackEnd ==
    /\ tpc = "fallback"
    /\ fi > Len(fieldnames)
    /\ tpc' = "resolve"
    /\ UNCHANGED <<fieldnames, table_rows, fi, group_col, id_col, sequence_to_group>>
    /\ UNCHANGED <<loopVars, pdbVars, normVars, msaVars, outVars>>

\* lines 66-72: raise ValueError without a group column; else the default
\* identifier column, and on to the rows
TableResolve ==
    /\ tpc = "resolve"
    /\ IF group_col = None
       THEN /\ tpc' = "error"
            /\ UNCHANGED <<id_col, fi>>
       ELSE /\ id_col' = (IF id_col = None THEN fieldnames[1] ELSE id_col)
            /\ tpc' = "rows"
            /\ fi' = 1
    /\ UNCHANGED <<fieldnames, table_rows, group_col, sequence_to_group>>
    /\ UNCHANGED <<loopVars, pdbVars, normVars, msaVars, outVars>>

\* lines 74-78: one data row
TableRow ==
    /\ tpc = "rows"
    /\ fi <= Len(table_rows)
    /\ LET row_id == Strip(RowGet(fieldnames, table_rows[fi], id_col))
           group == Strip(RowGet(fieldnames, table_rows[fi], group_col))
       IN sequence_to_group' =
             (IF row_id # "" /\ group # "" THEN DictPut(sequence_to_group, row_id, group)
              ELSE sequence_to_group)
    /\ fi' = fi + 1
    /\ UNCHANGED <<fieldnames, table_rows, tpc, group_col, id_col>>
    /\ UNCHANGED <<loopVars, pdbVars, normVars, msaVars, outVars>>

\* line 80: return sequence_to_group
TableReturn ==
    /\ tpc = "rows"
    /\ fi > Len(table_rows)
    /\ tpc' = "returned"
    /\ UNCHANGED <<fieldnames, table_rows, fi, group_col, id_col, sequence_to_group>>
    /\ UNCHANGED <<loopVars, pdbVars, normVars, msaVars, outVars>>

NextTable ==
    \/ TableScanField
    \/ TableScanEnd
    \/ TableFallbackField
    \/ TableFallbackEnd
    \/ TableResolve
    \/ TableRow
    \/ TableReturn

SpecTable == InitTable /\ [][NextTable]_vars

-----------------------------------------------------------------------------
(* normalize_sequence_id(seq_id, sequence_to_group) *)

\* sequence_to_group.keys(), as a set
Keys(d) == {d[n].id : n \in 1..Len(d)}

\* seq_id.split('.')[0]: the text before the first dot
BaseId(s) ==
    IF DotsOf(s) = {} THEN s
    ELSE SubSeq(s, 1, (CHOOSE k \in DotsOf(s) : \A j \in DotsOf(s) : k <= j) - 1)

\* table_id in seq_id or seq_id in table_id
PartialMatch(table_id, s) == Contains(s, table_id) \/ Contains(table_id, s)

\* table_id.lower() == seq_id_lower
CaseMatch(table_id, s) == Lower(table_id) = Lower(s)

\* the first item of the dict whose key passes the test, 0 for none: the
\* "for table_id in sequence_to_group.keys(): if ...: return table_id" loops
FirstPartial(d, s) ==
    LET hit == {n \in 1..Len(d) : PartialMatch(d[n].id, s)} IN
    IF hit = {} THEN 0 ELSE CHOOSE n \in hit : \A m \in hit : n <= m

FirstCase(d, s) ==
    LET hit == {n \in 1..Len(d) : CaseMatch(d[n].id, s)} IN
    IF hit = {} THEN 0 ELSE CHOOSE n \in hit : \A m \in hit : n <= m

\* the whole function, as analyze_amino_acid_usage calls it
NormalizeSequenceId(s, d) ==
    IF s \in Keys(d) THEN s
    ELSE IF DotsOf(s) # {} /\ BaseId(s) \in Keys(d) THEN BaseId(s)
    ELSE IF FirstPartial(d, s) # 0 THEN d[FirstPartial(d, s)].id
    ELSE IF FirstCase(d, s) # 0 THEN d[FirstCase(d, s)].id
    ELSE None

\* the identifiers of the model, of the table and of the alignment
IdTexts == {"A", "A.B", "A.B.1", "a.b", "B", "XAX"}

\* the dicts of at most n items with distinct keys, every group "g"
TablesUpTo(n) ==
    {t \in UNION {[1..k -> [id : IdTexts, group : {"g"}]] : k \in 0..n} :
        \A a, b \in 1..Len(t) : a # b => t[a].id # t[b].id}

InitNorm ==
    /\ sequence_to_group \in TablesUpTo(MaxTable)
    /\ seq_id \in IdTexts
    /\ base_id = None
    /\ matched_id = None
    /\ npc = "direct"
    /\ ni = 0
    /\ fieldnames = <<>>
    /\ table_rows = <<>>
    /\ tpc = "idle"
    /\ fi = 0
    /\ group_col = None
    /\ id_col = None
    /\ structured_regions = {}
    /\ atoms_by_residue = EmptyDict
    /\ loop_residues = <<>>
    /\ loops = <<>>
    /\ current_loop = <<>>
    /\ i = 0
    /\ lpc = "wait"
    /\ PdbIdle
    /\ MsaIdle
    /\ OutIdle

NormUnchanged == UNCHANGED <<loopVars, pdbVars, tableVars, msaVars, outVars, seq_id>>

\* lines 110-111: direct match
NormDirect ==
    /\ npc = "direct"
    /\ IF seq_id \in Keys(sequence_to_group)
       THEN matched_id' = seq_id /\ npc' = "returned"
       ELSE npc' = "version" /\ UNCHANGED matched_id
    /\ UNCHANGED <<base_id, ni>>
    /\ NormUnchanged

\* lines 114-117: without the version number
NormVersion ==
    /\ npc = "version"
    /\ IF DotsOf(seq_id) # {}
       THEN /\ base_id' = BaseId(seq_id)
            /\ IF BaseId(seq_id) \in Keys(sequence_to_group)
               THEN matched_id' = BaseId(seq_id) /\ npc' = "returned" /\ UNCHANGED ni
               ELSE npc' = "partial" /\ ni' = 1 /\ UNCHANGED matched_id
       ELSE /\ npc' = "partial"
            /\ ni' = 1
            /\ UNCHANGED <<base_id, matched_id>>
    /\ NormUnchanged

\* lines 120-122: one iteration of the partial-match loop
NormPartialStep ==
    /\ npc = "partial"
    /\ ni <= Len(sequence_to_group)
    /\ IF PartialMatch(sequence_to_group[ni].id, seq_id)
       THEN matched_id' = sequence_to_group[ni].id /\ npc' = "returned" /\ UNCHANGED ni
       ELSE ni' = ni + 1 /\ UNCHANGED <<matched_id, npc>>
    /\ UNCHANGED base_id
    /\ NormUnchanged

\* the partial-match loop ends without a return
NormPartialEnd ==
    /\ npc = "partial"
    /\ ni > Len(sequence_to_group)
    /\ npc' = "case"
    /\ ni' = 1
    /\ UNCHANGED <<base_id, matched_id>>
    /\ NormUnchanged

\* lines 125-128: one iteration of the case-insensitive loop
NormCaseStep ==
    /\ npc = "case"
    /\ ni <= Len(sequence_to_group)
    /\ IF CaseMatch(sequence_to_group[ni].id, seq_id)
       THEN matched_id' = sequence_to_group[ni].id /\ npc' = "returned" /\ UNCHANGED ni
       ELSE ni' = ni + 1 /\ UNCHANGED <<matched_id, npc>>
    /\ UNCHANGED base_id
    /\ NormUnchanged

\* line 130: return None
NormReturnNone ==
    /\ npc = "case"
    /\ ni > Len(sequence_to_group)
    /\ matched_id' = None
    /\ npc' = "returned"
    /\ UNCHANGED <<base_id, ni>>
    /\ NormUnchanged

NextNorm ==
    \/ NormDirect
    \/ NormVersion
    \/ NormPartialStep
    \/ NormPartialEnd
    \/ NormCaseStep
    \/ NormReturnNone

SpecNorm == InitNorm /\ [][NextNorm]_vars

-----------------------------------------------------------------------------
(* analyze_amino_acid_usage, from the grouping of the alignment on.  The   *)
(* report is the sequence of the blocks printed to standard output.        *)

\* sequence_to_group[k]
GroupOf(d, k) == LET n == CHOOSE n \in 1..Len(d) : d[n].id = k IN d[n].group

\* matched_id and matched_id in sequence_to_group
IsMatched(m, d) == m # None /\ m \in Keys(d)

\* group_sequences[group].append(item) on a defaultdict(list) kept as the
\* sequence of its items in insertion order
GroupAppend(gs, group, item) ==
    IF \E n \in 1..Len(gs) : gs[n].group = group
    THEN [n \in 1..Len(gs) |->
            IF gs[n].group = group
            THEN [group |-> group, seqs |-> Append(gs[n].seqs, item)]
            ELSE gs[n]]
    ELSE Append(gs, [group |-> group, seqs |-> <<item>>])

NoGroupsNever(gs) == FALSE

\* not group_sequences
NoGroups(gs) == gs = <<>>

AaSymbolDashOnly(c) == IF UpperChar(c) = "-" THEN "gap" ELSE UpperChar(c)

\* aa = sequence[pos].upper(); '-' and '.' become 'gap'
AaSymbol(c) ==
    LET aa == UpperChar(c) IN IF aa = "-" \/ aa = "." THEN "gap" ELSE aa

RECURSIVE AaAtPosition(_, _)
\* aa_at_position: the symbols of the sequences that reach column p, in order
AaAtPosition(seqs, p) ==
    IF seqs = <<>> THEN <<>>
    ELSE (IF p < Len(Head(seqs).seq) THEN <<AaSymbol(CharAt(Head(seqs).seq, p))>> ELSE <<>>)
         \o AaAtPosition(Tail(seqs), p)

\* Counter(aa_at_position)
Counter(aas) ==
    [a \in {aas[k] : k \in 1..Len(aas)} |-> Cardinality({k \in 1..Len(aas) : aas[k] = a})]

\* the least string of a non-empty set
MinStr(S) == CHOOSE m \in S : \A k \in S : k = m \/ StrLess(m, k)

RECURSIVE SortedStrs(_)
\* sorted(group_sequences.keys())
SortedStrs(S) == IF S = {} THEN <<>>
                 ELSE LET m == MinStr(S) IN <<m>> \o SortedStrs(S \ {m})

\* group_sequences[group]
SeqsOf(gs, group) == LET n == CHOOSE n \in 1..Len(gs) : gs[n].group = group IN gs[n].seqs

RECURSIVE GroupBlocks(_, _, _)
\* lines 197-226: the blocks printed for one column, group by group; a group
\* with no symbol at the column is passed over
GroupBlocks(gs, groups, p) ==
    IF groups = <<>> THEN <<>>
    ELSE LET aas == AaAtPosition(SeqsOf(gs, Head(groups)), p) IN
         (IF aas = <<>> THEN <<>>
          ELSE <<[kind |-> "group", pos |-> p, group |-> Head(groups),
                  total |-> Len(aas), aa_counts |-> Counter(aas)]>>)
         \o GroupBlocks(gs, Tail(groups), p)

RECURSIVE MaxLength(_)
\* max_length of parse_msa
MaxLength(al) ==
    IF al = <<>> THEN 0
    ELSE LET m == MaxLength(Tail(al)) IN
         IF Len(Head(al).seq) > m THEN Len(Head(al).seq) ELSE m

\* the identifiers and sequences of the model's alignments
AlignIds == {"a", "B", "C"}

SeqTexts == {"A", "a-", ".C"}

\* the tables of the model: identifiers A and B, groups g1 and g2
MsaTables ==
    {<<>>,
     <<[id |-> "A", group |-> "g1"]>>,
     <<[id |-> "A", group |-> "g1"], [id |-> "B", group |-> "g1"]>>,
     <<[id |-> "A", group |-> "g1"], [id |-> "B", group |-> "g2"]>>,
     <<[id |-> "B", group |-> "g1"], [id |-> "A", group |-> "g2"]>>}

Alignments == UNION {[1..k -> [id : AlignIds, seq : SeqTexts]] : k \in 0..MaxAlign}

InitMsa ==
    /\ sequence_to_group \in MsaTables
    /\ alignment \in Alignments
    /\ max_length = MaxLength(alignment)
    /\ group_sequences = <<>>
    /\ unmatched = <<>>
    /\ ai = 1
    /\ mpc = "group"
    /\ pos = 0
    /\ report = <<>>
    /\ exit_code = 0
    /\ fieldnames = <<>>
    /\ table_rows = <<>>
    /\ tpc = "returned"
    /\ fi = 0
    /\ group_col = None
    /\ id_col = None
    /\ structured_regions = {}
    /\ atoms_by_residue = EmptyDict
    /\ loop_residues = <<>>
    /\ loops = <<>>
    /\ current_loop = <<>>
    /\ i = 0
    /\ lpc = "wait"
    /\ PdbIdle
    /\ NormIdle
    /\ OutIdle

MsaUnchanged == UNCHANGED <<loopVars, pdbVars, tableVars, normVars, outVars, alignment, max_length>>

\* lines 161-167: one sequence of the alignment is grouped or set aside
MsaGroupSequence ==
    /\ mpc = "group"
    /\ ai <= Len(alignment)
    /\ LET m == NormalizeSequenceId(alignment[ai].id, sequence_to_group) IN
       IF IsMatched(m, sequence_to_group)
       THEN /\ group_sequences' =
                  GroupAppend(group_sequences, GroupOf(sequence_to_group, m), alignment[ai])
            /\ UNCHANGED unmatched
       ELSE /\ unmatched' = Append(unmatched, alignment[ai].id)
            /\ UNCHANGED group_sequences
    /\ ai' = ai + 1
    /\ UNCHANGED <<mpc, pos, report, exit_code>>
    /\ MsaUnchanged

\* lines 169-189: the warning, the exit when nothing matched, the summary
MsaGroupEnd ==
    /\ mpc = "group"
    /\ ai > Len(alignment)
    /\ LET warned == IF unmatched # <<>>
                     THEN <<[kind |-> "warning", n |-> Len(unmatched)]>> ELSE <<>>
       IN IF NoGroups(group_sequences)
          THEN /\ report' = report \o warned \o <<[kind |-> "error"]>>
               /\ exit_code' = 1
               /\ mpc' = "exited"
          ELSE /\ report' = report \o warned \o <<[kind |-> "summary", n |-> Len(group_sequences)]>>
               /\ mpc' = "positions"
               /\ UNCHANGED exit_code
    /\ UNCHANGED <<group_sequences, unmatched, ai, pos>>
    /\ MsaUnchanged

\* lines 192-228: one column of the alignment
MsaPosition ==
    /\ mpc = "positions"
    /\ pos < max_length
    /\ LET all_groups == SortedStrs({group_sequences[n].group : n \in 1..Len(group_sequences)})
       IN report' = report \o <<[kind |-> "position", pos |-> pos]>>
                           \o GroupBlocks(group_sequences, all_groups, pos)
    /\ pos' = pos + 1
    /\ UNCHANGED <<group_sequences, unmatched, ai, mpc, exit_code>>
    /\ MsaUnchanged

\* lines 230-231: the loop is over, the function returns, exit status 0
MsaComplete ==
    /\ mpc = "positions"
    /\ pos >= max_length
    /\ mpc' = "done"
    /\ UNCHANGED <<group_sequences, unmatched, ai, pos, report, exit_code>>
    /\ MsaUnchanged

NextMsa == MsaGroupSequence \/ MsaGroupEnd \/ MsaPosition \/ MsaComplete

SpecMsa == InitMsa /\ [][NextMsa]_vars

-----------------------------------------------------------------------------
(* The scripts from their first line to their exit: what they print, and   *)
(* when.  A print statement, or the prints of one block, is one record of  *)
(* stdout.                                                                 *)

\* the lines of the files the scripts are run on
ScriptLines ==
    {Line(HelixText("A", "   1", "   1"), "HELIX", "A", 1, 1, "ok"),
     Line(HelixText("A", "   1", "   2"), "HELIX", "A", 1, 2, "ok"),
     Line(SheetText("A", "   1", "   1"), "SHEET", "A", 1, 1, "ok"),
     Line(AtomText("ATOM  ", " CA ", "ALA", "A", "   1",
                   "   3.000", "   4.000", "   0.000", " 10.50"), "ATOM", "A", 1, 1, "ok"),
     Line(AtomText("ATOM  ", " N  ", "ALA", "A", "   1",
                   "   1.000", "   0.000", "   0.000", " 20.00"), "ATOM", "A", 1, 1, "ok"),
     Line(AtomText("ATOM  ", " CA ", "GLY", "A", "   2",
                   "   0.000", "   0.000", "   0.000", " 30.25"), "ATOM", "A", 2, 2, "ok")}

\* the file of the worked example: chain A, residues 1 to 5, one atom each,
\* B-factors 10, 20, 30, 40, 50, and a helix over residue 3 alone
ExampleFile ==
    [k \in 1..6 |->
        IF k = 6 THEN Line(HelixText("A", "   3", "   3"), "HELIX", "A", 3, 3, "ok")
        ELSE Line(AtomText("ATOM  ", " CA ", "ALA", "A", RJust(IntText(k), 4),
                           "   0.000", "   0.000", "   0.000",
                           " " \o IntText(k) \o "0.00"), "ATOM", "A", k, k, "ok")]

\* the files of at most MaxFileLines lines, and the example
ScriptFiles == UNION {[1..n -> ScriptLines] : n \in 0..MaxFileLines} \cup {ExampleFile}

\* the header rows of the table files: with a group column, with a genus
\* column only, with neither
ScriptHeaders == {<<"ID", "Group">>, <<"Genus", "ID">>, <<"ID", "Notes">>}

\* the alignments of the MSA files
ScriptAlignments ==
    {<<>>,
     <<[id |-> "id1", seq |-> "A-"]>>,
     <<[id |-> "id1", seq |-> "AC"], [id |-> "zz", seq |-> "a"]>>}

RECURSIVE FloorSqrt(_, _, _)
\* the largest n in lo..hi with n * n <= s (lo * lo <= s)
FloorSqrt(s, lo, hi) ==
    IF lo >= hi THEN lo
    ELSE LET mid == (lo + hi + 1) \div 2 IN
         IF mid * mid <= s THEN FloorSqrt(s, mid, hi) ELSE FloorSqrt(s, lo, mid - 1)

\* calculate_distance on coordinates in thousandths, to the nearest
\* thousandth (the value "{distance:.3f}" prints)
calculate_distance(coord1, coord2) ==
    LET dx == coord2[1] - coord1[1]
        dy == coord2[2] - coord1[2]
        dz == coord2[3] - coord1[3]
        ss == dx * dx + dy * dy + dz * dz
    IN (FloorSqrt(4 * ss, 0, 20000) + 1) \div 2

-----------------------------------------------------------------------------
(* analyze_secondary_structure.py, analyze_secondary_structure and main *)

\* the file of the command line cannot be opened: the first open() raises
\* FileNotFoundError, main prints the error on stderr and exits 1
PdbFileNotFound ==
    /\ opc = "open"
    /\ script \in Scripts
    /\ files["pdb_file"] = "missing"
    /\ stderr' = Append(stderr, [kind |-> "error", what |-> "file not found"])
    /\ opc' = "exit1"
    /\ UNCHANGED <<stdout, oi, files>>
    /\ UNCHANGED <<loopVars, pdbVars, tableVars, normVars, msaVars>>

\* lines 134-135: the banner
SecondaryBanner ==
    /\ opc = "begin"
    /\ script = "analyze_secondary_structure"
    /\ stdout' = stdout \o <<[kind |-> "banner"], [kind |-> "rule"]>>
    /\ opc' = "open"
    /\ UNCHANGED <<stderr, oi, files>>
    /\ UNCHANGED <<loopVars, pdbVars, tableVars, normVars, msaVars>>

\* line 138: parse_pdb_atoms is called and opens the file
SecondaryOpen ==
    /\ opc = "open"
    /\ script = "analyze_secondary_structure"
    /\ files["pdb_file"] = "readable"
    /\ opc' = "parsing"
    /\ ppc' = "ca_atoms"
    /\ ln' = 1
    /\ UNCHANGED <<stdout, stderr, oi, files>>
    /\ UNCHANGED <<script, pdb_file, ca_coords, helices, sheets>>
    /\ UNCHANGED <<loopVars, tableVars, normVars, msaVars>>

\* lines 138-142: parse_pdb_atoms returns, the count is printed,
\* parse_helices is called
SecondaryCAParsed ==
    /\ opc = "parsing"
    /\ ppc = "ca_atoms"
    /\ ln > Len(pdb_file)
    /\ stdout' = Append(stdout, [kind |-> "found", what |-> "alpha carbon atoms",
                                 n |-> Cardinality(DOMAIN ca_coords)])
    /\ ppc' = "helices"
    /\ ln' = 1
    /\ UNCHANGED <<stderr, opc, oi, files>>
    /\ UNCHANGED <<script, pdb_file, ca_coords, helices, sheets>>
    /\ UNCHANGED <<loopVars, tableVars, normVars, msaVars>>

\* lines 142-146: parse_helices returns, the count is printed, parse_sheets
\* is called
SecondaryHelicesParsed ==
    /\ opc = "parsing"
    /\ ppc = "helices"
    /\ ln > Len(pdb_file)
    /\ stdout' = Append(stdout, [kind |-> "found", what |-> "alpha helix(es)",
                                 n |-> Len(helices)])
    /\ ppc' = "sheets"
    /\ ln' = 1
    /\ UNCHANGED <<stderr, opc, oi, files>>
    /\ UNCHANGED <<script, pdb_file, ca_coords, helices, sheets>>
    /\ UNCHANGED <<loopVars, tableVars, normVars, msaVars>>

\* lines 146-147: parse_sheets returns, the count is printed
SecondarySheetsParsed ==
    /\ opc = "parsing"
    /\ ppc = "sheets"
    /\ ln > Len(pdb_file)
    /\ stdout' = Append(stdout, [kind |-> "found", what |-> "beta sheet strand(s)",
                                 n |-> Len(sheets)])
    /\ ppc' = "parsed"
    /\ opc' = "helices"
    /\ UNCHANGED <<stderr, oi, files>>
    /\ UNCHANGED <<script, pdb_file, ln, ca_coords, helices, sheets>>
    /\ UNCHANGED <<loopVars, tableVars, normVars, msaVars>>

\* lines 154-177, a helix with a missing boundary reported as if its
\* distance were 0
HelixBlockZeroForMissing(coords, n, helix) ==
    LET coord1_key == <<helix.chain_id, helix.resseq1>>
        coord2_key == <<helix.chain_id, helix.resseq2>>
    IN [kind |-> "helix", n |-> n, helix_id |-> helix.helix_id,
        helix_class |-> helix.helix_class, chain_id |-> helix.chain_id,
        resseq1 |-> helix.resseq1, resseq2 |-> helix.resseq2,
        distance |-> IF coord1_key \in DOMAIN coords /\ coord2_key \in DOMAIN coords
                     THEN calculate_distance(coords[coord1_key], coords[coord2_key])
                     ELSE 0]

\* lines 154-177: what is printed for helix number n
HelixBlock(coords, n, helix) ==
    LET coord1_key == <<helix.chain_id, helix.resseq1>>
        coord2_key == <<helix.chain_id, helix.resseq2>>
    IN IF coord1_key \in DOMAIN coords /\ coord2_key \in DOMAIN coords
       THEN [kind |-> "helix", n |-> n, helix_id |-> helix.helix_id,
             helix_class |-> helix.helix_class, chain_id |-> helix.chain_id,
             resseq1 |-> helix.resseq1, resseq2 |-> helix.resseq2,
             distance |-> calculate_distance(coords[coord1_key], coords[coord2_key])]
       ELSE [kind |-> "helix", n |-> n, helix_id |-> helix.helix_id,
             warning |-> "Missing CA coordinates",
             resseq1 |-> helix.resseq1, resseq2 |-> helix.resseq2]

\* lines 187-210: what is printed for sheet strand number n
SheetBlock(coords, n, sheet) ==
    LET coord1_key == <<sheet.chain_id, sheet.resseq1>>
        coord2_key == <<sheet.chain_id, sheet.resseq2>>
    IN IF coord1_key \in DOMAIN coords /\ coord2_key \in DOMAIN coords
       THEN [kind |-> "sheet", n |-> n, sheet_id |-> sheet.sheet_id,
             strand_id |-> sheet.strand_id, chain_id |-> sheet.chain_id,
             resseq1 |-> sheet.resseq1, resseq2 |-> sheet.resseq2,
             distance |-> calculate_distance(coords[coord1_key], coords[coord2_key])]
       ELSE [kind |-> "sheet", n |-> n, sheet_id |-> sheet.sheet_id,
             warning |-> "Missing CA coordinates",
             resseq1 |-> sheet.resseq1, resseq2 |-> sheet.resseq2]

\* lines 150-152 and 178-181: the header of the helix section, and the
\* sentence that stands for the section when there is no helix
SecondaryHelixSection ==
    /\ opc = "helices"
    /\ IF helices # <<>>
       THEN /\ stdout' = Append(stdout, [kind |-> "header", what |-> "ALPHA HELICES"])
            /\ opc' = "helix"
            /\ oi' = 1
       ELSE /\ stdout' = stdout \o <<[kind |-> "header", what |-> "ALPHA HELICES"],
                                     [kind |-> "none", what |-> "alpha helices"]>>
            /\ opc' = "sheets"
            /\ UNCHANGED oi
    /\ UNCHANGED <<stderr, files>>
    /\ UNCHANGED <<loopVars, pdbVars, tableVars, normVars, msaVars>>

\* lines 153-177: one iteration of "for i, helix in enumerate(helices, 1)"
SecondaryHelix ==
    /\ opc = "helix"
    /\ oi <= Len(helices)
    /\ stdout' = Append(stdout, HelixBlock(ca_coords, oi, helices[oi]))
    /\ oi' = oi + 1
    /\ UNCHANGED <<stderr, opc, files>>
    /\ UNCHANGED <<loopVars, pdbVars, tableVars, normVars, msaVars>>

\* the loop over the helices is over
SecondaryHelixEnd ==
    /\ opc = "helix"
    /\ oi > Len(helices)
    /\ opc' = "sheets"
    /\ UNCHANGED <<stdout, stderr, oi, files>>
    /\ UNCHANGED <<loopVars, pdbVars, tableVars, normVars, msaVars>>

\* lines 183-185 and 211-214: the header of the sheet section
SecondarySheetSection ==
    /\ opc = "sheets"
    /\ IF sheets # <<>>
       THEN /\ stdout' = Append(stdout, [kind |-> "header", what |-> "BETA SHEETS"])
            /\ opc' = "sheet"
            /\ oi' = 1
       ELSE /\ stdout' = stdout \o <<[kind |-> "header", what |-> "BETA SHEETS"],
                                     [kind |-> "none", what |-> "beta sheets"]>>
            /\ opc' = "summary"
            /\ UNCHANGED oi
    /\ UNCHANGED <<stderr, files>>
    /\ UNCHANGED <<loopVars, pdbVars, tableVars, normVars, msaVars>>

\* lines 186-210: one iteration of "for i, sheet in enumerate(sheets, 1)"
SecondarySheet ==
    /\ opc = "sheet"
    /\ oi <= Len(sheets)
    /\ stdout' = Append(stdout, SheetBlock(ca_coords, oi, sheets[oi]))
    /\ oi' = oi + 1
    /\ UNCHANGED <<stderr, opc, files>>
    /\ UNCHANGED <<loopVars, pdbVars, tableVars, normVars, msaVars>>

\* the loop over the sheet strands is over
SecondarySheetEnd ==
    /\ opc = "sheet"
    /\ oi > Len(sheets)
    /\ opc' = "summary"
    /\ UNCHANGED <<stdout, stderr, oi, files>>
    /\ UNCHANGED <<loopVars, pdbVars, tableVars, normVars, msaVars>>

\* lines 217-219: the closing sentence of a structure with neither helix nor
\* sheet; the function returns and the script exits 0
SecondarySummary ==
    /\ opc = "summary"
    /\ stdout' = (IF helices = <<>> /\ sheets = <<>>
                  THEN stdout \o <<[kind |-> "rule"], [kind |-> "none", what |-> "helices or sheets"]>>
                  ELSE stdout)
    /\ opc' = "done"
    /\ UNCHANGED <<stderr, oi, files>>
    /\ UNCHANGED <<loopVars, pdbVars, tableVars, normVars, msaVars>>

-----------------------------------------------------------------------------
(* analyze_loops.py, analyze_loops and main *)

\* lines 128-129: the banner
LoopsBanner ==
    /\ opc = "begin"
    /\ script = "analyze_loops"
    /\ stdout' = stdout \o <<[kind |-> "banner"], [kind |-> "rule"]>>
    /\ opc' = "open"
    /\ UNCHANGED <<stderr, oi, files>>
    /\ UNCHANGED <<loopVars, pdbVars, tableVars, normVars, msaVars>>

\* line 132: parse_pdb_secondary_structure is called and opens the file
LoopsOpen ==
    /\ opc = "open"
    /\ script = "analyze_loops"
    /\ files["pdb_file"] = "readable"
    /\ opc' = "parsing"
    /\ ppc' = "secondary_structure"
    /\ ln' = 1
    /\ UNCHANGED <<stdout, stderr, oi, files>>
    /\ UNCHANGED <<script, pdb_file, ca_coords, helices, sheets>>
    /\ UNCHANGED <<loopVars, tableVars, normVars, msaVars>>

\* lines 132-136: parse_pdb_secondary_structure returns, the count is
\* printed, parse_pdb_atoms is called
LoopsStructuredParsed ==
    /\ opc = "parsing"
    /\ ppc = "secondary_structure"
    /\ ln > Len(pdb_file)
    /\ stdout' = Append(stdout, [kind |-> "found", what |-> "residues in helices/sheets",
                                 n |-> Cardinality(structured_regions)])
    /\ ppc' = "atoms"
    /\ ln' = 1
    /\ UNCHANGED <<stderr, opc, oi, files>>
    /\ UNCHANGED <<script, pdb_file, ca_coords, helices, sheets>>
    /\ UNCHANGED <<loopVars, tableVars, normVars, msaVars>>

\* lines 136-140: parse_pdb_atoms returns, the count is printed,
\* identify_loops is called
LoopsAtomsParsed ==
    /\ opc = "parsing"
    /\ ppc = "atoms"
    /\ ln > Len(pdb_file)
    /\ stdout' = Append(stdout, [kind |-> "found", what |-> "residues with atoms",
                                 n |-> Cardinality(DOMAIN atoms_by_residue)])
    /\ ppc' = "parsed"
    /\ lpc' = "start"
    /\ opc' = "identify"
    /\ UNCHANGED <<stderr, oi, files>>
    /\ UNCHANGED <<script, pdb_file, ln, ca_coords, helices, sheets>>
    /\ UNCHANGED <<structured_regions, atoms_by_residue, loop_residues, loops, current_loop, i>>
    /\ UNCHANGED <<tableVars, normVars, msaVars>>

RECURSIVE BFactorsFirstAtomOnly(_, _)
\* lines 153-158, with one B-factor taken per residue
BFactorsFirstAtomOnly(loop, atoms) ==
    IF loop = <<>> THEN <<>>
    ELSE (IF Head(loop) \in DOMAIN atoms
          THEN <<atoms[Head(loop)][1].b_factor>>
          ELSE <<>>) \o BFactorsFirstAtomOnly(Tail(loop), atoms)

RECURSIVE BFactorsOf(_, _)
\* lines 153-158: b_factors, the B-factor of every atom of every residue of
\* the loop, in the order of the loop
BFactorsOf(loop, atoms) ==
    IF loop = <<>> THEN <<>>
    ELSE (IF Head(loop) \in DOMAIN atoms
          THEN [k \in 1..Len(atoms[Head(loop)]) |-> atoms[Head(loop)][k].b_factor]
          ELSE <<>>) \o BFactorsOf(Tail(loop), atoms)

RECURSIVE AppendNew(_, _)
\* "if x not in residue_info: residue_info.append(x)" for each x of items
AppendNew(info, items) ==
    IF items = <<>> THEN info
    ELSE AppendNew(IF \E k \in 1..Len(info) : info[k] = Head(items)
                   THEN info ELSE Append(info, Head(items)),
                   Tail(items))

RECURSIVE ResidueInfo(_, _, _)
\* lines 153-161: residue_info
ResidueInfo(info, loop, atoms) ==
    IF loop = <<>> THEN info
    ELSE LET key == Head(loop)
             items == IF key \in DOMAIN atoms
                      THEN [k \in 1..Len(atoms[key]) |-> <<atoms[key][k].resname, key[1], key[2]>>]
                      ELSE <<>>
         IN ResidueInfo(AppendNew(info, items), Tail(loop), atoms)

RECURSIVE InsertByKey(_, _)
\* x put into a list sorted by (chain_id, resnum), behind its equals
InsertByKey(sorted, x) ==
    IF sorted = <<>> THEN <<x>>
    ELSE IF KeyLess(<<x[2], x[3]>>, <<Head(sorted)[2], Head(sorted)[3]>>)
         THEN <<x>> \o sorted
         ELSE <<Head(sorted)>> \o InsertByKey(Tail(sorted), x)

RECURSIVE SortedInfo(_, _)
\* line 173: sorted(residue_info, key=lambda x: (x[1], x[2])), a stable sort
SortedInfo(sorted, info) ==
    IF info = <<>> THEN sorted
    ELSE SortedInfo(InsertByKey(sorted, Head(info)), Tail(info))

RECURSIVE Sum(_)
\* sum(b_factors)
Sum(b_factors) == IF b_factors = <<>> THEN 0 ELSE Head(b_factors) + Sum(Tail(b_factors))

RECURSIVE Gcd(_, _)
Gcd(a, b) == IF b = 0 THEN a ELSE Gcd(b, a % b)

\* a / b as a fraction in lowest terms (a >= 0, b > 0)
Quotient(a, b) == <<a \div Gcd(a, b), b \div Gcd(a, b)>>

\* line 165: sum(b_factors) / len(b_factors), in thousandths
AverageBFactor(b_factors) == Quotient(Sum(b_factors), Len(b_factors))

\* lines 149-177: what is printed for loop number n
LoopBlock(n, loop, atoms) ==
    LET b_factors == BFactorsOf(loop, atoms)
        residue_info == ResidueInfo(<<>>, loop, atoms)
    IN IF b_factors # <<>>
       THEN [kind |-> "loop", n |-> n, avg_bfactor |-> AverageBFactor(b_factors),
             count |-> Len(residue_info), residues |-> SortedInfo(<<>>, residue_info)]
       ELSE [kind |-> "loop", n |-> n, not_available |-> "no atoms found",
             count |-> Len(residue_info), residues |-> SortedInfo(<<>>, residue_info)]

\* lines 140-146: identify_loops has returned; without loops the sentence
\* that says so is printed and the function returns
LoopsIdentified ==
    /\ opc = "identify"
    /\ lpc = "done"
    /\ IF loops = <<>>
       THEN /\ stdout' = Append(stdout, [kind |-> "none", what |-> "loop regions"])
            /\ opc' = "done"
            /\ UNCHANGED oi
       ELSE /\ stdout' = Append(stdout, [kind |-> "identified", n |-> Len(loops)])
            /\ opc' = "loop"
            /\ oi' = 1
    /\ UNCHANGED <<stderr, files>>
    /\ UNCHANGED <<loopVars, pdbVars, tableVars, normVars, msaVars>>

\* lines 149-177: one iteration of "for i, loop in enumerate(loops, 1)"
LoopsLoop ==
    /\ opc = "loop"
    /\ oi <= Len(loops)
    /\ stdout' = Append(stdout, LoopBlock(oi, loops[oi], atoms_by_residue))
    /\ oi' = oi + 1
    /\ UNCHANGED <<stderr, opc, files>>
    /\ UNCHANGED <<loopVars, pdbVars, tableVars, normVars, msaVars>>

\* the loop is over, the function returns and the script exits 0
LoopsEnd ==
    /\ opc = "loop"
    /\ oi > Len(loops)
    /\ opc' = "done"
    /\ UNCHANGED <<stdout, stderr, oi, files>>
    /\ UNCHANGED <<loopVars, pdbVars, tableVars, normVars, msaVars>>

-----------------------------------------------------------------------------
(* analyze_msa_usage.py, analyze_amino_acid_usage up to the grouping *)

\* lines 137-140: the banner
MsaBanner ==
    /\ opc = "begin"
    /\ script = "analyze_msa_usage"
    /\ stdout' = stdout \o <<[kind |-> "banner"], [kind |-> "rule"]>>
    /\ opc' = "table"
    /\ UNCHANGED <<stderr, oi, files>>
    /\ UNCHANGED <<loopVars, pdbVars, tableVars, normVars, msaVars>>

\* lines 143-148: parse_entry_table cannot open or sniff the table file; the
\* exception is caught, the error goes to stderr, exit status 1
MsaTableUnreadable ==
    /\ opc = "table"
    /\ script = "analyze_msa_usage"
    /\ files["table_file"] = "missing"
    /\ stderr' = Append(stderr, [kind |-> "error", what |-> "Error parsing table file"])
    /\ exit_code' = 1
    /\ opc' = "exit1"
    /\ UNCHANGED <<stdout, oi, files>>
    /\ UNCHANGED <<alignment, max_length, group_sequences, unmatched, ai, mpc, pos, report>>
    /\ UNCHANGED <<loopVars, pdbVars, tableVars, normVars>>

\* line 144: parse_entry_table is called and reads the header row
MsaTableOpen ==
    /\ opc = "table"
    /\ script = "analyze_msa_usage"
    /\ files["table_file"] = "readable"
    /\ opc' = "table_parse"
    /\ tpc' = "scan"
    /\ fi' = 1
    /\ UNCHANGED <<stdout, stderr, oi, files>>
    /\ UNCHANGED <<fieldnames, table_rows, group_col, id_col, sequence_to_group>>
    /\ UNCHANGED <<loopVars, pdbVars, normVars, msaVars>>

\* lines 144-145: parse_entry_table returns and the count is printed
MsaTableLoaded ==
    /\ opc = "table_parse"
    /\ tpc = "returned"
    /\ stdout' = Append(stdout, [kind |-> "loaded", what |-> "sequences with group assignments",
                                 n |-> Len(sequence_to_group)])
    /\ opc' = "msa"
    /\ UNCHANGED <<stderr, oi, files>>
    /\ UNCHANGED <<loopVars, pdbVars, tableVars, normVars, msaVars>>

\* lines 146-148: parse_entry_table raised ValueError (no group column); the
\* error goes to stderr, exit status 1
MsaTableError ==
    /\ opc = "table_parse"
    /\ tpc = "error"
    /\ stderr' = Append(stderr, [kind |-> "error", what |-> "Error parsing table file"])
    /\ exit_code' = 1
    /\ opc' = "exit1"
    /\ UNCHANGED <<stdout, oi, files>>
    /\ UNCHANGED <<alignment, max_length, group_sequences, unmatched, ai, mpc, pos, report>>
    /\ UNCHANGED <<loopVars, pdbVars, tableVars, normVars>>

\* lines 150-155, with the error printed on standard output
MsaFileErrorOnStdout ==
    /\ opc = "msa"
    /\ files["msa_file"] \in {"missing", "unparseable"}
    /\ stdout' = Append(stdout, [kind |-> "error", what |-> "Error parsing MSA file"])
    /\ exit_code' = 1
    /\ opc' = "exit1"
    /\ UNCHANGED <<stderr, oi, files>>
    /\ UNCHANGED <<alignment, max_length, group_sequences, unmatched, ai, mpc, pos, report>>
    /\ UNCHANGED <<loopVars, pdbVars, tableVars, normVars>>

\* lines 150-155: parse_msa raises (no such file, or SeqIO.parse fails); the
\* error goes to stderr, exit status 1
MsaFileError ==
    /\ opc = "msa"
    /\ files["msa_file"] \in {"missing", "unparseable"}
    /\ stderr' = Append(stderr, [kind |-> "error", what |-> "Error parsing MSA file"])
    /\ exit_code' = 1
    /\ opc' = "exit1"
    /\ UNCHANGED <<stdout, oi, files>>
    /\ UNCHANGED <<alignment, max_length, group_sequences, unmatched, ai, mpc, pos, report>>
    /\ UNCHANGED <<loopVars, pdbVars, tableVars, normVars>>

\* lines 150-159: parse_msa returns the alignment of the file, the count is
\* printed, the grouping starts
MsaLoaded ==
    /\ opc = "msa"
    /\ files["msa_file"] = "readable"
    /\ \E al \in ScriptAlignments :
          /\ alignment' = al
          /\ max_length' = MaxLength(al)
          /\ stdout' = Append(stdout, [kind |-> "loaded", what |-> "sequences from MSA",
                                       n |-> Len(al)])
    /\ group_sequences' = <<>>
    /\ unmatched' = <<>>
    /\ ai' = 1
    /\ mpc' = "group"
    /\ opc' = "analysis"
    /\ UNCHANGED <<stderr, oi, files>>
    /\ UNCHANGED <<pos, report, exit_code>>
    /\ UNCHANGED <<loopVars, pdbVars, tableVars, normVars>>

-----------------------------------------------------------------------------
(* The three scripts, each run on its files *)

AllScripts == Scripts \cup {"analyze_msa_usage"}

InitScripts ==
    /\ script \in AllScripts
    /\ IF script = "analyze_msa_usage"
       THEN /\ pdb_file = <<>>
            /\ fieldnames \in ScriptHeaders
            /\ files \in [table_file : {"readable", "missing"},
                          msa_file : {"readable", "missing", "unparseable"}]
       ELSE /\ pdb_file \in ScriptFiles
            /\ fieldnames = <<>>
            /\ files \in [pdb_file : {"readable", "missing"}]
    /\ table_rows = [r \in 1..2 |-> SubSeq(TableBody[r], 1, Len(fieldnames))]
    /\ stdout = <<>>
    /\ stderr = <<>>
    /\ opc = "begin"
    /\ oi = 0
    /\ ppc = "unopened"
    /\ ln = 0
    /\ ca_coords = EmptyDict
    /\ helices = <<>>
    /\ sheets = <<>>
    /\ structured_regions = {}
    /\ atoms_by_residue = EmptyDict
    /\ loop_residues = <<>>
    /\ loops = <<>>
    /\ current_loop = <<>>
    /\ i = 0
    /\ lpc = "wait"
    /\ tpc = "idle"
    /\ fi = 0
    /\ group_col = None
    /\ id_col = None
    /\ sequence_to_group = <<>>
    /\ NormIdle
    /\ MsaIdle

NextScripts ==
    \/ PdbFileNotFound
    \/ SecondaryBanner
    \/ SecondaryOpen
    \/ ParseCALine
    \/ SecondaryCAParsed
    \/ ParseHelicesLine
    \/ SecondaryHelicesParsed
    \/ ParseSheetsLine
    \/ SecondarySheetsParsed
    \/ SecondaryHelixSection
    \/ SecondaryHelix
    \/ SecondaryHelixEnd
    \/ SecondarySheetSection
    \/ SecondarySheet
    \/ SecondarySheetEnd
    \/ SecondarySummary
    \/ LoopsBanner
    \/ LoopsOpen
    \/ ParseSecondaryStructureLine
    \/ LoopsStructuredParsed
    \/ ParseAtomsLine
    \/ LoopsAtomsParsed
    \/ IdentifyStart
    \/ IdentifyStep
    \/ IdentifyFinish
    \/ LoopsIdentified
    \/ LoopsLoop
    \/ LoopsEnd
    \/ MsaBanner
    \/ MsaTableUnreadable
    \/ MsaTableOpen
    \/ TableScanField
    \/ TableScanEnd
    \/ TableFallbackField
    \/ TableFallbackEnd
    \/ TableResolve
    \/ TableRow
    \/ TableReturn
    \/ MsaTableLoaded
    \/ MsaTableError
    \/ MsaFileError
    \/ MsaLoaded
    \/ MsaGroupSequence
    \/ MsaGroupEnd
    \/ MsaPosition
    \/ MsaComplete

SpecScripts == InitScripts /\ [][NextScripts]_vars

-----------------------------------------------------------------------------
(* Claims about identify_loops *)

RECURSIVE Flatten(_)
Flatten(ss) == IF ss = <<>> THEN <<>> ELSE Head(ss) \o Flatten(Tail(ss))

LoopKeySet == (DOMAIN atoms_by_residue) \ structured_regions

\* C1: when identify_loops has returned, the concatenation of the loops lists
\* exactly the keys with atom data that are not structured, each once, in
\* ascending (chain id, residue number) order; no loop is empty; with no such
\* key the result is the empty list.
C1_LoopsPartitionUnstructured ==
    lpc = "done" =>
        LET flat == Flatten(loops) IN
        /\ {flat[k] : k \in 1..Len(flat)} = LoopKeySet
        /\ Len(flat) = Cardinality(LoopKeySet)
        /\ \A a, b \in 1..Len(flat) : a < b => KeyLess(flat[a], flat[b])
        /\ \A n \in 1..Len(loops) : loops[n] # <<>>
        /\ (LoopKeySet = {} => loops = <<>>)

\* a run where a structured residue splits the atom keys of one chain and a
\* second chain has a loop of its own
C1_Witness ==
    /\ lpc = "done"
    /\ Len(loops) >= 3
    /\ structured_regions \cap DOMAIN atoms_by_residue # {}

\* C2: every returned loop is a run within one chain with residue numbers
\* increasing by one, and two consecutive loops cannot be merged.
C2_LoopsAreMaximalRuns ==
    lpc = "done" =>
        /\ \A n \in 1..Len(loops) : \A k \in 1..(Len(loops[n]) - 1) :
              /\ loops[n][k][1] = loops[n][k + 1][1]
              /\ loops[n][k + 1][2] = loops[n][k][2] + 1
        /\ \A n \in 1..(Len(loops) - 1) :
              LET last == loops[n][Len(loops[n])]
                  first == loops[n + 1][1]
              IN last[1] # first[1] \/ first[2] # last[2] + 1

\* two loops meet at a chain boundary with consecutive residue numbers, and
\* some loop has more than one residue
C2_Witness ==
    /\ lpc = "done"
    /\ \E n \in 1..(Len(loops) - 1) :
          /\ loops[n][Len(loops[n])][1] # loops[n + 1][1][1]
          /\ loops[n + 1][1][2] = loops[n][Len(loops[n])][2] + 1
    /\ \E n \in 1..Len(loops) : Len(loops[n]) >= 2

-----------------------------------------------------------------------------
(* Claims about the PDB parsers *)

\* parse_pdb_secondary_structure has returned
StructuredParsed == script = "analyze_loops" /\ ppc \in {"atoms", "parsed"}

\* the offsets (from 1) of the HELIX and SHEET lines of the file
HelixSheetAt == {k \in 1..Len(pdb_file) : pdb_file[k].kind \in {"HELIX", "SHEET"}}

\* the keys (c, n), n in the inclusive range [resseq1, resseq2], of the record
\* line k was written from
RecordKeys(k) ==
    {<<pdb_file[k].chain, n>> : n \in pdb_file[k].resseq1..pdb_file[k].resseq2}

\* C3: when every HELIX and SHEET line of the file is well-formed, the set
\* parse_pdb_secondary_structure returns is the union, over those records, of
\* the keys (c, n) for n in [resseq1, resseq2]; a file with one such record
\* gives resseq2 - resseq1 + 1 keys when resseq2 >= resseq1 and none otherwise.
C3_RangeExpansion ==
    (StructuredParsed /\ \A k \in HelixSheetAt : pdb_file[k].form = "ok") =>
        /\ structured_regions = UNION {RecordKeys(k) : k \in HelixSheetAt}
        /\ \A k \in HelixSheetAt :
              HelixSheetAt = {k} =>
                 Cardinality(structured_regions) =
                    (IF pdb_file[k].resseq2 >= pdb_file[k].resseq1
                     THEN pdb_file[k].resseq2 - pdb_file[k].resseq1 + 1 ELSE 0)

\* a file of a HELIX over two residues and a SHEET with a reversed range
C3_Witness ==
    /\ StructuredParsed
    /\ \A k \in HelixSheetAt : pdb_file[k].form = "ok"
    /\ \E h, t \in HelixSheetAt :
          /\ pdb_file[h].kind = "HELIX" /\ pdb_file[h].resseq2 > pdb_file[h].resseq1
          /\ pdb_file[t].kind = "SHEET" /\ pdb_file[t].resseq2 < pdb_file[t].resseq1
    /\ Cardinality(structured_regions) = 2

\* the length of a line without its newline
TextLen(text) == Len(RStrip(text))

\* the record types a parser reads
ReadsLine(parser, text) ==
    CASE parser = "secondary_structure" -> StartsWith(text, "HELIX") \/ StartsWith(text, "SHEET")
      [] parser = "atoms" -> StartsWith(text, "ATOM") \/ StartsWith(text, "HETATM")
      [] parser = "ca_atoms" -> StartsWith(text, "ATOM")
      [] parser = "helices" -> StartsWith(text, "HELIX")
      [] parser = "sheets" -> StartsWith(text, "SHEET")

\* the line ends before the last column the parser reads from its record type
TooShort(parser, text) ==
    TextLen(text) <
        (CASE parser = "atoms" -> 66
           [] parser = "ca_atoms" -> 54
           [] parser = "helices" -> 40
           [] OTHER -> 37)

\* a numeric field the parser reads from the line holds text that is no number
NonNumeric(parser, text) ==
    CASE parser = "atoms" -> ~IsInt(Slice(text, 22, 26)) \/ ~IsFloat(Slice(text, 60, 66))
      [] parser = "ca_atoms" ->
            \/ ~IsInt(Slice(text, 22, 26))
            \/ ~IsFloat(Slice(text, 30, 38))
            \/ ~IsFloat(Slice(text, 38, 46))
            \/ ~IsFloat(Slice(text, 46, 54))
      [] StartsWith(text, "HELIX") -> ~IsInt(Slice(text, 21, 25)) \/ ~IsInt(Slice(text, 33, 37))
      [] OTHER -> ~IsInt(Slice(text, 22, 26)) \/ ~IsInt(Slice(text, 33, 37))

Malformed(parser, text) ==
    ReadsLine(parser, text) /\ (TooShort(parser, text) \/ NonNumeric(parser, text))

RECURSIVE WithoutMalformed(_, _)
\* the texts of the lines of a file, the parser's malformed lines removed
WithoutMalformed(parser, file) ==
    IF file = <<>> THEN <<>>
    ELSE (IF Malformed(parser, Head(file).text) THEN <<>> ELSE <<Head(file).text>>)
         \o WithoutMalformed(parser, Tail(file))

\* C4: the result of every PDB parser equals the result of parsing the file
\* with its malformed lines (too short, or non-numeric text in a numeric
\* field) removed.
C4_MalformedLinesContributeNothing ==
    /\ StructuredParsed =>
          structured_regions = ParseFile("secondary_structure", {}, WithoutMalformed("secondary_structure", pdb_file))
    /\ (script = "analyze_loops" /\ ppc = "parsed") =>
          atoms_by_residue = ParseFile("atoms", EmptyDict, WithoutMalformed("atoms", pdb_file))
    /\ (script = "analyze_secondary_structure" /\ ppc \in {"helices", "sheets", "parsed"}) =>
          ca_coords = ParseFile("ca_atoms", EmptyDict, WithoutMalformed("ca_atoms", pdb_file))
    /\ (script = "analyze_secondary_structure" /\ ppc \in {"sheets", "parsed"}) =>
          helices = ParseFile("helices", <<>>, WithoutMalformed("helices", pdb_file))
    /\ (script = "analyze_secondary_structure" /\ ppc = "parsed") =>
          sheets = ParseFile("sheets", <<>>, WithoutMalformed("sheets", pdb_file))

-----------------------------------------------------------------------------
(* Claims about parse_entry_table *)

\* the header columns are resolved: the rows are read or the error is raised
ColumnsResolved == tpc \in {"rows", "returned", "error"}

FieldAt == 1..Len(fieldnames)

\* what the specification says of a header: it contains 'group'; it contains
\* one of genus, species, taxon, class; it contains one of id, name, sequence,
\* entry, accession (all case-insensitively)
NamesGroup(h) == Contains(Lower(h), "group")

NamesVariation(h) ==
    \E w \in {"genus", "species", "taxon", "class"} : Contains(Lower(h), w)

NamesId(h) ==
    \E w \in {"id", "name", "sequence", "entry", "accession"} : Contains(Lower(h), w)

\* the keyword of highest priority, in the order genus, species, taxon, class,
\* that some header contains
BestKeyword ==
    LET order == <<"genus", "species", "taxon", "class">>
        found == {n \in 1..4 : \E k \in FieldAt : Contains(Lower(fieldnames[k]), order[n])}
    IN order[CHOOSE n \in found : \A m \in found : n <= m]

\* C8 as stated: a header containing 'group' is the group column when there
\* is one; otherwise a header containing the keyword of highest priority in
\* the order genus, species, taxon, class, whatever its position; with no
\* keyword in any header parsing fails.
C8_KeywordPriority ==
    ColumnsResolved =>
        IF \E k \in FieldAt : NamesGroup(fieldnames[k])
        THEN tpc # "error" /\ NamesGroup(group_col)
        ELSE IF \E k \in FieldAt : NamesVariation(fieldnames[k])
        THEN tpc # "error" /\ Contains(Lower(group_col), BestKeyword)
        ELSE tpc = "error" /\ sequence_to_group = <<>>

\* C8, amended: a header containing 'group' is the group column when there is
\* one (the rightmost of them); otherwise the group column is the leftmost
\* header containing any of genus, species, taxon, class; with no keyword in
\* any header parsing fails and no mapping is returned.
C8_LeftmostVariation ==
    ColumnsResolved =>
        IF \E k \in FieldAt : NamesGroup(fieldnames[k])
        THEN /\ tpc # "error"
             /\ \E k \in FieldAt :
                   /\ group_col = fieldnames[k]
                   /\ NamesGroup(fieldnames[k])
                   /\ \A j \in FieldAt : j > k => ~NamesGroup(fieldnames[j])
        ELSE IF \E k \in FieldAt : NamesVariation(fieldnames[k])
        THEN /\ tpc # "error"
             /\ \E k \in FieldAt :
                   /\ group_col = fieldnames[k]
                   /\ NamesVariation(fieldnames[k])
                   /\ \A j \in FieldAt : j < k => ~NamesVariation(fieldnames[j])
        ELSE tpc = "error" /\ sequence_to_group = <<>>

\* a table whose species column stands left of its genus column, read to the
\* end
C8_Witness ==
    /\ tpc = "returned"
    /\ \E k \in FieldAt : Contains(Lower(fieldnames[k]), "genus")
    /\ Contains(Lower(group_col), "species")
    /\ sequence_to_group # <<>>

\* C9: the identifier column is the leftmost header containing any of id,
\* name, sequence, entry, accession; the first column when none does.
C9_FirstIdHeader ==
    tpc \in {"rows", "returned"} =>
        IF \E k \in FieldAt : NamesId(fieldnames[k])
        THEN \E k \in FieldAt :
                /\ id_col = fieldnames[k]
                /\ NamesId(fieldnames[k])
                /\ \A j \in FieldAt : j < k => ~NamesId(fieldnames[j])
        ELSE id_col = fieldnames[1]

-----------------------------------------------------------------------------
(* Claims about normalize_sequence_id *)

\* s without its trailing dot-delimited version suffix: the text before the
\* last dot
VersionStripped(s) ==
    LET dots == {k \in 1..Len(s) : SubSeq(s, k, k) = "."} IN
    IF dots = {} THEN s
    ELSE SubSeq(s, 1, (CHOOSE k \in dots : \A j \in dots : j <= k) - 1)

TableIds == {sequence_to_group[n].id : n \in 1..Len(sequence_to_group)}

\* the items whose identifier contains seq_id or is contained in it
SubstringAt ==
    {n \in 1..Len(sequence_to_group) :
        \/ Contains(sequence_to_group[n].id, seq_id)
        \/ Contains(seq_id, sequence_to_group[n].id)}

\* the items whose identifier equals seq_id ignoring case
CaseFoldAt ==
    {n \in 1..Len(sequence_to_group) : Lower(sequence_to_group[n].id) = Lower(seq_id)}

Least(S) == CHOOSE n \in S : \A m \in S : n <= m

\* the result of the four stages tried in order, stage (2) looking up the
\* candidate cand
FourStages(cand) ==
    IF seq_id \in TableIds THEN seq_id
    ELSE IF Contains(seq_id, ".") /\ cand \in TableIds THEN cand
    ELSE IF SubstringAt # {} THEN sequence_to_group[Least(SubstringAt)].id
    ELSE IF CaseFoldAt # {} THEN sequence_to_group[Least(CaseFoldAt)].id
    ELSE None

\* C5: normalize_sequence_id returns the result of the first stage that
\* succeeds, in the order exact, version-stripped, substring (first in table
\* order), case-insensitive (first in table order), None when all fail; a
\* result other than None is a key of the table.
C5_FourStagesInOrder ==
    npc = "returned" =>
        /\ matched_id = FourStages(VersionStripped(seq_id))
        /\ (matched_id # None => matched_id \in TableIds)

\* C6: the candidate stage (2) looks up is the identifier without the text
\* after its last dot and that dot.
C6_StripsTrailingSuffix ==
    (npc \in {"partial", "case", "returned"} /\ base_id # None) =>
        base_id = VersionStripped(seq_id)

-----------------------------------------------------------------------------
(* Claims about analyze_amino_acid_usage *)

\* the offsets of the alignment sequences grouped or set aside so far
Processed == 1..(IF mpc = "group" THEN ai - 1 ELSE Len(alignment))

\* the identifier of alignment sequence n matches no table identifier
Unmatched(n) == NormalizeSequenceId(alignment[n].id, sequence_to_group) = None

\* the group blocks of the report
GroupBlockAt == {k \in 1..Len(report) : report[k].kind = "group"}

\* the columns the report has a block for
ReportedPositions == {report[k].pos : k \in {j \in 1..Len(report) : report[j].kind = "position"}}

\* the run is over
MsaOver == mpc \in {"exited", "done"}

RECURSIVE TotalAt(_, _)
\* the sum of the totals of the group blocks of column p
TotalAt(blocks, p) ==
    IF blocks = <<>> THEN 0
    ELSE (IF Head(blocks).kind = "group" /\ Head(blocks).pos = p THEN Head(blocks).total ELSE 0)
         + TotalAt(Tail(blocks), p)

\* unmatched sequences are set aside and excluded from every group and every
\* count: the totals of a column's blocks add up to the matched sequences
\* that reach the column
UnmatchedExcluded ==
    LET um == [n \in 1..Len(alignment) |-> Unmatched(n)]
        umIds == {alignment[n].id : n \in {m \in 1..Len(alignment) : um[m]}}
    IN /\ \A n \in Processed :
             um[n] => \E k \in 1..Len(unmatched) : unmatched[k] = alignment[n].id
       /\ \A g \in 1..Len(group_sequences) : \A k \in 1..Len(group_sequences[g].seqs) :
             group_sequences[g].seqs[k].id \notin umIds
       /\ Len(unmatched) = Cardinality({n \in Processed : um[n]})
       /\ \A p \in ReportedPositions :
             TotalAt(report, p) =
                Cardinality({n \in 1..Len(alignment) : ~um[n] /\ Len(alignment[n].seq) > p})

\* C7 as stated: unmatched sequences are set aside and excluded, and a run
\* with unmatched identifiers, however many, never aborts or exits non-zero.
C7_UnmatchedNeverAbort ==
    /\ UnmatchedExcluded
    /\ (MsaOver /\ unmatched # <<>>) => (mpc = "done" /\ exit_code = 0)

\* C7, amended: unmatched sequences are set aside and excluded from every
\* group and count; the run completes with status 0 exactly when at least one
\* sequence of the alignment is matched, and when none is it exits with
\* status 1 after the warning, before any column is reported.
C7_UnmatchedExcludedExitWhenNoneMatched ==
    /\ UnmatchedExcluded
    /\ MsaOver =>
          IF \E n \in 1..Len(alignment) : ~Unmatched(n)
          THEN mpc = "done" /\ exit_code = 0
          ELSE mpc = "exited" /\ exit_code = 1 /\ ReportedPositions = {} /\ GroupBlockAt = {}

\* a completed run with an unmatched and a matched sequence, the unmatched
\* one the longest of the alignment
C7_Witness ==
    /\ mpc = "done"
    /\ exit_code = 0
    /\ unmatched # <<>>
    /\ \E n \in 1..Len(alignment) :
          Unmatched(n) /\ Len(alignment[n].seq) = max_length /\ max_length = 2
    /\ \E n \in 1..Len(alignment) : ~Unmatched(n) /\ Len(alignment[n].seq) = 1

\* the symbol of a character of the alignment: upper case, '-' and '.' as gap
SymbolOf(c) == IF c \in {"-", "."} THEN "gap" ELSE UpperChar(c)

\* the sequences of a group, and those of them that reach column p
GroupSeqs(g) ==
    LET n == CHOOSE n \in 1..Len(group_sequences) : group_sequences[n].group = g
    IN group_sequences[n].seqs

Covering(g, p) == {k \in 1..Len(GroupSeqs(g)) : Len(GroupSeqs(g)[k].seq) > p}

\* C10: in every block of the report, for column pos and a group, the total
\* is the number of the group's sequences longer than pos, each of them counted
\* once under its symbol (upper case, '-' and '.' as gap), so the counts add
\* up to the total; a group with no such sequence has no block for the
\* column, every other group exactly one.
C10_PositionCounts ==
    /\ \A k \in GroupBlockAt :
          LET b == report[k]
              cov == Covering(b.group, b.pos)
              sym(n) == SymbolOf(SubSeq(GroupSeqs(b.group)[n].seq, b.pos + 1, b.pos + 1))
          IN /\ b.total = Cardinality(cov)
             /\ b.total > 0
             /\ DOMAIN b.aa_counts = {sym(n) : n \in cov}
             /\ \A a \in DOMAIN b.aa_counts :
                   b.aa_counts[a] = Cardinality({n \in cov : sym(n) = a})
             /\ Cardinality(UNION {{<<a, c>> : c \in 1..b.aa_counts[a]} : a \in DOMAIN b.aa_counts})
                   = b.total
    /\ \A p \in ReportedPositions : \A g \in 1..Len(group_sequences) :
          Cardinality({k \in GroupBlockAt :
                          report[k].pos = p /\ report[k].group = group_sequences[g].group})
             = (IF Covering(group_sequences[g].group, p) = {} THEN 0 ELSE 1)

\* a column where one group has a gap among its symbols and fewer symbols than
\* sequences, and another group has no block
C10_Witness ==
    /\ mpc = "done"
    /\ \E k \in GroupBlockAt :
          /\ "gap" \in DOMAIN report[k].aa_counts
          /\ report[k].total < Len(GroupSeqs(report[k].group))
          /\ \E g \in 1..Len(group_sequences) :
                Covering(group_sequences[g].group, report[k].pos) = {}

-----------------------------------------------------------------------------
(* Claims about analyze_secondary_structure *)

IsHelixBlock(r) == r.kind = "helix"

IsSheetBlock(r) == r.kind = "sheet"

IsHelixLine(l) == l.kind = "HELIX"

IsSheetLine(l) == l.kind = "SHEET"

\* the report blocks printed so far, helices and sheet strands
HelixBlocksPrinted == SelectSeq(stdout, IsHelixBlock)

SheetBlocksPrinted == SelectSeq(stdout, IsSheetBlock)

\* both boundary keys of an element are in the alpha-carbon coordinate map
BothBoundariesKnown(e) ==
    /\ <<e.chain_id, e.resseq1>> \in DOMAIN ca_coords
    /\ <<e.chain_id, e.resseq2>> \in DOMAIN ca_coords

\* block is the report of element e, the n-th of its kind in the file, which
\* the file wrote on the line l: with a distance when both boundaries are
\* known, with the warning and no distance otherwise
ReportsElement(block, n, e, l) ==
    /\ block.n = n
    /\ block.resseq1 = e.resseq1 /\ e.resseq1 = l.resseq1
    /\ block.resseq2 = e.resseq2 /\ e.resseq2 = l.resseq2
    /\ IF BothBoundariesKnown(e)
       THEN "distance" \in DOMAIN block /\ "warning" \notin DOMAIN block
       ELSE "warning" \in DOMAIN block /\ "distance" \notin DOMAIN block

\* the helix section, then the sheet section, is over
HelixSectionOver == opc \in {"sheets", "sheet", "summary", "done"}

SheetSectionOver == opc \in {"summary", "done"}

\* C11: every parsed helix and every parsed sheet strand gets exactly one
\* report block, in file order, with a distance when both boundary keys are
\* in the alpha-carbon coordinate map and with the missing-coordinates
\* warning and no distance otherwise; a missing boundary neither ends the
\* run nor suppresses the blocks of the elements after it.
C11_OneBlockPerElement ==
    script = "analyze_secondary_structure" =>
        LET hb == HelixBlocksPrinted
            sb == SheetBlocksPrinted
            hl == SelectSeq(pdb_file, IsHelixLine)
            sl == SelectSeq(pdb_file, IsSheetLine)
        IN /\ Len(hb) <= Len(helices) /\ Len(sb) <= Len(sheets)
           /\ ppc = "parsed" => Len(helices) = Len(hl) /\ Len(sheets) = Len(sl)
           /\ \A k \in 1..Len(hb) : ReportsElement(hb[k], k, helices[k], hl[k])
           /\ \A k \in 1..Len(sb) : ReportsElement(sb[k], k, sheets[k], sl[k])
           /\ HelixSectionOver => Len(hb) = Len(helices)
           /\ SheetSectionOver => Len(sb) = Len(sheets)
           /\ files.pdb_file = "readable" => opc # "exit1" /\ stderr = <<>>

\* a finished run that printed a warning block and, after it, a block with a
\* distance
C11_Witness ==
    /\ script = "analyze_secondary_structure"
    /\ opc = "done"
    /\ \E j, k \in 1..Len(stdout) :
          /\ j < k
          /\ stdout[j].kind \in {"helix", "sheet"}
          /\ "warning" \in DOMAIN stdout[j]
          /\ stdout[k].kind \in {"helix", "sheet"}
          /\ "distance" \in DOMAIN stdout[k]

-----------------------------------------------------------------------------
(* Claims about the order of input and output in the three scripts *)

\* everything the script has printed on its standard output
Printed == stdout \o report

\* every input file of the script has been read and parsed to its end
AllInputParsed ==
    IF script = "analyze_msa_usage" THEN opc = "analysis" ELSE ppc = "parsed"

\* the number of parsers of the script that have returned
ParsersReturned ==
    CASE script = "analyze_msa_usage" ->
            (IF opc = "analysis" THEN 2
             ELSE IF opc = "msa" \/ (opc = "exit1" /\ tpc = "returned") THEN 1 ELSE 0)
      [] script = "analyze_loops" ->
            (IF ppc = "parsed" THEN 2 ELSE IF ppc = "atoms" THEN 1 ELSE 0)
      [] script = "analyze_secondary_structure" ->
            (IF ppc = "parsed" THEN 3 ELSE IF ppc = "sheets" THEN 2
             ELSE IF ppc = "helices" THEN 1 ELSE 0)

\* the run ended in a fatal error of its input: file not found, no group
\* column, unparseable MSA
FatalInputError == opc = "exit1"

\* C12 as stated: nothing is on standard output before every input file is
\* read and parsed, and a run that ends in a fatal error has printed nothing.
C12_NothingPrintedBeforeParsed ==
    /\ ~AllInputParsed => Printed = <<>>
    /\ FatalInputError => Printed = <<>>

\* C12, amended: before every input file is read and parsed, standard output
\* holds the banner (printed before any file is opened) and one count line
\* for each parser that has returned, and nothing else: no section header
\* and no loop, helix, sheet, group or position block; so it is with a run
\* that ended in a fatal error of its input.
C12_OnlyProgressBeforeParsed ==
    (~AllInputParsed \/ FatalInputError) =>
        /\ report = <<>>
        /\ stdout # <<>> =>
              /\ Len(stdout) = 2 + ParsersReturned
              /\ stdout[1].kind = "banner"
              /\ stdout[2].kind = "rule"
              /\ \A k \in 3..Len(stdout) : stdout[k].kind \in {"found", "loaded"}

\* a run of analyze_msa_usage that loaded its table and ended on its MSA file
C12_Witness ==
    /\ FatalInputError
    /\ script = "analyze_msa_usage"
    /\ tpc = "returned"
    /\ Len(stdout) = 3
    /\ stdout[3].kind = "loaded"

-----------------------------------------------------------------------------
(* Claims about the loop report of analyze_loops *)

IsLoopBlock(r) == r.kind = "loop"

\* the loop blocks printed so far
LoopBlocksPrinted == SelectSeq(stdout, IsLoopBlock)

\* the atom records of the residues of a loop: (residue key, position in the
\* residue's list)
AtomRecordsOf(loop) ==
    {r \in {loop[k] : k \in 1..Len(loop)} \X (1..Len(pdb_file)) :
        r[1] \in DOMAIN atoms_by_residue /\ r[2] <= Len(atoms_by_residue[r[1]])}

RECURSIVE TotalBFactor(_)
\* the sum of the B-factors of a set of atom records
TotalBFactor(records) ==
    IF records = {} THEN 0
    ELSE LET r == CHOOSE r \in records : TRUE IN
         atoms_by_residue[r[1]][r[2]].b_factor + TotalBFactor(records \ {r})

\* the fraction p/q is total/count
IsAverage(fraction, total, count) ==
    /\ fraction[2] > 0
    /\ count > 0
    /\ fraction[1] * count = total * fraction[2]

\* C13: the average B-factor printed for a loop is the sum of the B-factors
\* of all atom records of the loop's residue keys divided by the number of
\* those records, every atom of every residue of the loop counted once and
\* no atom of another residue; on the example (chain A, residues 1 to 5 with
\* B-factors 10 to 50, structured set {(A,3)}) the loops are
\* [(A,1),(A,2)] and [(A,4),(A,5)] and the second average is 45.
C13_AverageOverAllAtomsOfLoop ==
    script = "analyze_loops" =>
        LET lb == LoopBlocksPrinted IN
        /\ Len(lb) <= Len(loops)
        /\ \A k \in 1..Len(lb) :
              LET records == AtomRecordsOf(loops[k]) IN
              /\ lb[k].n = k
              /\ "avg_bfactor" \in DOMAIN lb[k]
              /\ IsAverage(lb[k].avg_bfactor, TotalBFactor(records), Cardinality(records))
        /\ (pdb_file = ExampleFile /\ opc = "done") =>
              /\ structured_regions = {<<"A", 3>>}
              /\ loops = << << <<"A", 1>>, <<"A", 2>> >>, << <<"A", 4>>, <<"A", 5>> >> >>
              /\ Len(lb) = 2
              /\ lb[2].avg_bfactor = <<45000, 1>>

\* a finished run that printed the average of a loop of two residues, one of
\* them with two atoms
C13_Witness ==
    /\ script = "analyze_loops"
    /\ opc = "done"
    /\ \E k \in 1..Len(LoopBlocksPrinted) :
          /\ Len(loops[k]) >= 2
          /\ \E n \in 1..Len(loops[k]) : Len(atoms_by_residue[loops[k][n]]) >= 2
          /\ \E n \in 1..Len(loops[k]) : Len(atoms_by_residue[loops[k][n]]) = 1

====
